---- MODULE Spec2Model ----
(***************************************************************************)
(* A model of the IdleShutdown agent (sricharan-11/vm-idle-shutdown):      *)
(* the two sample buffers and their windowed idle predicates, the          *)
(* self-calibrating CPU threshold (statistical procedure, persisted        *)
(* state, learning/calibrated phases) and the decision loop that ties      *)
(* them to the shutdown sink.                                              *)
(*                                                                         *)
(* Time is counted in seconds.  A CPU reading is a whole percentage; the   *)
(* mean of a window is kept as an exact fraction, so every comparison the  *)
(* code makes on float64 values is made here on integers.                  *)
(***************************************************************************)
EXTENDS Integers, Sequences, FiniteSets, TLC

\* ------------------------------------------------------------------------
\* Program constants
\* ------------------------------------------------------------------------

\* main.go: samplingInterval = 30 * time.Second
samplingInterval == 30
Minute == 2 * samplingInterval
Hour == 60 * Minute
\* main.go: evaluationInterval = 1 * time.Minute
evaluationInterval == 1 * Minute
\* main.go: calibrationCheckInterval = 1 * time.Hour
calibrationCheckInterval == 1 * Hour

\* monitor (cpu): maxSampleRetention = 72 * time.Hour
maxSampleRetention == 72 * Hour
\* monitor (users): maxUserSampleRetention = 2 * time.Hour
maxUserSampleRetention == 2 * Hour

\* config: defaults used when a key is absent or invalid
DefaultCPUCheckMinutes == 60
DefaultUserCheckMinutes == 60
DefaultCPUThreshold == 25

\* calibrator constants
ThresholdBuffer == 3
MinThreshold == 5
stddevTight == 1
stddevLoose == 2
windowDuration == 30 * Minute
minWindowSamples == 5
minCalibSamples == 10

\* ------------------------------------------------------------------------
\* Bounds of the model
\* ------------------------------------------------------------------------

\* number of steps of the clock in one behaviour
MaxTicks == 11
\* number of environment events in one behaviour: a change of the machine's
\* load or sessions, a failed sensor read, an edit of config.ini, a restart
\* of the service from outside, a stall of the clock, a save of the state
\* file that fails, a shutdown command that fails, a signal
MaxEvents == 1

\* ------------------------------------------------------------------------
\* State
\* ------------------------------------------------------------------------

VARIABLES
    now,          \* wall clock, seconds
    ticks,        \* steps of the clock taken so far
    events,       \* environment events so far
    load,         \* the machine's CPU busy percentage (what the sensor reads)
    users,        \* the machine's number of distinct logged-in users
    running,      \* the agent process is running
    procStart,    \* time at which the running process was started
    cpuSamples,   \* CPUMonitor.samples
    userSamples,  \* UserMonitor.samples
    due,          \* a tick waiting in each task's ticker channel
    cfgFile,      \* /etc/idleshutdown/config.ini
    cfg,          \* main's cfg
    calibSet,     \* main's calib is not nil
    state,        \* calib.state
    stateFile,    \* /etc/idleshutdown/calibration.state
    restartReq,   \* restartService asked systemd for a restart
    signal,       \* SIGINT/SIGTERM: "none", "raised" (waiting in sigCh), "observed"
    dec,          \* what the last decision tick did
    run,          \* what the last calibration-check tick did
    lastCall,     \* times of the last takeSample calls, and of the last good ones
    everCalibrated, \* some calibration run has succeeded
    pending,      \* the threshold of the latest successful run, as long as no
                  \* decision tick in auto mode has begun after it
    arg,          \* the inputs of a pure function under check
    res,          \* its result
    mu,           \* CPUMonitor.mu and UserMonitor.mu
    pc,           \* where each task stands: in its select, or inside a handler
    locals        \* the local variables of the tasks that are inside a handler

vars == <<now, ticks, events, load, users, running, procStart, cpuSamples,
          userSamples, due, cfgFile, cfg, calibSet, state, stateFile,
          restartReq, signal, dec, run, lastCall, everCalibrated, pending,
          arg, res, mu, pc, locals>>

\* ------------------------------------------------------------------------
\* Time
\* ------------------------------------------------------------------------

\* time.Time.After / time.Time.Before
After(t, u) == t > u
Before(t, u) == t < u

\* ------------------------------------------------------------------------
\* Sample buffers (monitor.CPUMonitor, monitor.UserMonitor)
\* ------------------------------------------------------------------------

\* the index loop of takeSample: the number of leading entries whose
\* timestamp is not after the cutoff
RECURSIVE PruneStart(_, _, _)
PruneStart(samples, cutoff, start) ==
    IF start < Len(samples) /\ ~After(samples[start + 1].timestamp, cutoff)
    THEN PruneStart(samples, cutoff, start + 1)
    ELSE start

\* a variant of the trim that keeps an entry as old as the cutoff
PruneOld_KeepCutoff(samples, cutoff) ==
    SelectSeq(samples, LAMBDA s : ~Before(s.timestamp, cutoff))

\* the prefix trim m.samples = m.samples[start:]
PruneOld(samples, cutoff) ==
    LET start == PruneStart(samples, cutoff, 0)
    IN  IF start > 0 THEN SubSeq(samples, start + 1, Len(samples)) ELSE samples

\* CPUMonitor.takeSample after a successful sensor read: append, then prune
CpuTakeSample(samples, t, usage) ==
    PruneOld(Append(samples, [timestamp |-> t, usage |-> usage]),
             t - maxSampleRetention)

\* UserMonitor.takeSample after a successful sensor read: append, then prune
UserTakeSample(samples, t, count) ==
    PruneOld(Append(samples, [timestamp |-> t, userCount |-> count]),
             t - maxUserSampleRetention)

\* the samples of a buffer with timestamp after the cutoff, in buffer order
InWindow(samples, cutoff) ==
    SelectSeq(samples, LAMBDA s : After(s.timestamp, cutoff))

\* a variant of the guard that asks for one sample whatever the window
MinSamples_One(minutes) ==
    1

\* minSamples := minutes / 2, raised to 1
MinSamples(minutes) ==
    IF minutes \div 2 < 1 THEN 1 ELSE minutes \div 2

\* a variant of IsBelowThreshold that accepts a sample equal to the
\* threshold
IsBelowThreshold_AtMost(samples, t, threshold, minutes) ==
    LET samplesInWindow == InWindow(samples, t - minutes * Minute)
    IN  IF Len(samplesInWindow) < MinSamples(minutes)
        THEN FALSE
        ELSE \A i \in 1..Len(samplesInWindow) :
                 ~(samplesInWindow[i].usage > threshold)

\* CPUMonitor.IsBelowThreshold(threshold, minutes) evaluated at time t
IsBelowThreshold(samples, t, threshold, minutes) ==
    LET samplesInWindow == InWindow(samples, t - minutes * Minute)
    IN  IF Len(samplesInWindow) < MinSamples(minutes)
        THEN FALSE
        ELSE \A i \in 1..Len(samplesInWindow) :
                 ~(samplesInWindow[i].usage >= threshold)

\* UserMonitor.NoUsersLoggedIn(minutes) evaluated at time t
NoUsersLoggedIn(samples, t, minutes) ==
    LET samplesInWindow == InWindow(samples, t - minutes * Minute)
    IN  IF Len(samplesInWindow) < MinSamples(minutes)
        THEN FALSE
        ELSE \A i \in 1..Len(samplesInWindow) :
                 ~(samplesInWindow[i].userCount > 0)

\* CPUMonitor.GetSamples: a copy of the retained samples, oldest first
GetSamples(samples) ==
    [i \in 1..Len(samples) |->
        [Timestamp |-> samples[i].timestamp, Usage |-> samples[i].usage]]

\* ------------------------------------------------------------------------
\* Calibrator: the idle-baseline statistical procedure
\* ------------------------------------------------------------------------

\* A float64 that is a quotient of integers is kept as the fraction
\* [num, den] in lowest terms, den > 0.
RECURSIVE GCD(_, _)
GCD(a, b) == IF b = 0 THEN a ELSE GCD(b, a % b)

Abs(x) == IF x < 0 THEN 0 - x ELSE x

Frac(n, d) ==
    LET g == GCD(Abs(n), d)
    IN  [num |-> n \div g, den |-> d \div g]

\* a < b on fractions (den >= 0; 1/0 stands for math.MaxFloat64)
FracLess(a, b) == a.num * b.den < b.num * a.den

\* math.MaxFloat64: above every mean
MaxFloat64 == [num |-> 1, den |-> 0]

RECURSIVE SumSeq(_)
SumSeq(vals) == IF vals = <<>> THEN 0 ELSE Head(vals) + SumSeq(Tail(vals))

\* mean(vals): sum / len
mean(vals) == Frac(SumSeq(vals), Len(vals))

\* the square of stddev(vals, avg): sum of (v - avg)^2, over len
stddevSq(vals, avg) ==
    LET sq == [i \in 1..Len(vals) |->
                  (vals[i] * avg.den - avg.num) * (vals[i] * avg.den - avg.num)]
    IN  Frac(SumSeq(sq), avg.den * avg.den * Len(vals))

\* stddev(vals, avg) < maxStddev, both sides squared
stddevBelow(vals, avg, maxStddev) ==
    FracLess(stddevSq(vals, avg), Frac(maxStddev * maxStddev, 1))

\* the inner loop of slidingWindowMin: the usages of samples j = i, i+1, ...
\* up to the first one that is not before end
RECURSIVE winValues(_, _, _)
winValues(samples, j, end) ==
    IF j <= Len(samples) /\ Before(samples[j].Timestamp, end)
    THEN <<samples[j].Usage>> \o winValues(samples, j + 1, end)
    ELSE <<>>

\* a variant of the loop that keeps the first stable window it meets
RECURSIVE slidingWindowLoop_First(_, _, _, _)
slidingWindowLoop_First(samples, maxStddev, i, acc) ==
    IF i > Len(samples) THEN acc
    ELSE LET vals == winValues(samples, i, samples[i].Timestamp + windowDuration)
             avg == mean(vals)
         IN  IF Len(vals) < minWindowSamples
             THEN slidingWindowLoop_First(samples, maxStddev, i + 1, acc)
             ELSE IF stddevBelow(vals, avg, maxStddev) /\ ~acc.found
                  THEN slidingWindowLoop_First(samples, maxStddev, i + 1,
                                               [minAvg |-> avg, found |-> TRUE])
                  ELSE slidingWindowLoop_First(samples, maxStddev, i + 1, acc)

\* the outer loop of slidingWindowMin from window start i on, carrying
\* (minAvg, found)
RECURSIVE slidingWindowLoop(_, _, _, _)
slidingWindowLoop(samples, maxStddev, i, acc) ==
    IF i > Len(samples) THEN acc
    ELSE LET vals == winValues(samples, i, samples[i].Timestamp + windowDuration)
             avg == mean(vals)
         IN  IF Len(vals) < minWindowSamples
             THEN slidingWindowLoop(samples, maxStddev, i + 1, acc)
             ELSE IF stddevBelow(vals, avg, maxStddev) /\ FracLess(avg, acc.minAvg)
                  THEN slidingWindowLoop(samples, maxStddev, i + 1,
                                         [minAvg |-> avg, found |-> TRUE])
                  ELSE slidingWindowLoop(samples, maxStddev, i + 1, acc)

\* slidingWindowMin(samples, maxStddev): (minAvg, found)
slidingWindowMin(samples, maxStddev) ==
    slidingWindowLoop(samples, maxStddev, 1,
                      [minAvg |-> MaxFloat64, found |-> FALSE])

\* a variant of findIdleBaseline that tries the loose bound first
findIdleBaseline_LooseFirst(samples) ==
    LET tight == slidingWindowMin(samples, stddevTight)
        loose == slidingWindowMin(samples, stddevLoose)
    IN  IF loose.found
        THEN [ok |-> TRUE, baseline |-> loose.minAvg, maxStddev |-> stddevLoose]
        ELSE IF tight.found
             THEN [ok |-> TRUE, baseline |-> tight.minAvg, maxStddev |-> stddevTight]
             ELSE [ok |-> FALSE, baseline |-> Frac(0, 1), maxStddev |-> stddevLoose]

\* findIdleBaseline(samples): the tight bound first, then the loose one
findIdleBaseline(samples) ==
    LET tight == slidingWindowMin(samples, stddevTight)
        loose == slidingWindowMin(samples, stddevLoose)
    IN  IF tight.found
        THEN [ok |-> TRUE, baseline |-> tight.minAvg, maxStddev |-> stddevTight]
        ELSE IF loose.found
             THEN [ok |-> TRUE, baseline |-> loose.minAvg, maxStddev |-> stddevLoose]
             ELSE [ok |-> FALSE, baseline |-> Frac(0, 1), maxStddev |-> stddevLoose]

\* math.Round of a non-negative fraction: half away from zero
Round(x) == (2 * x.num + x.den) \div (2 * x.den)

\* math.Max on fractions
FracMax(a, b) == IF FracLess(a, b) THEN b ELSE a

\* a Run that rounds idleBaseline+ThresholdBuffer without the floor
NewThreshold_NoFloor(idleBaseline) ==
    Round(Frac(idleBaseline.num + ThresholdBuffer * idleBaseline.den,
               idleBaseline.den))

\* newThreshold := math.Max(idleBaseline+ThresholdBuffer, MinThreshold), rounded
NewThreshold(idleBaseline) ==
    Round(FracMax(Frac(idleBaseline.num + ThresholdBuffer * idleBaseline.den,
                       idleBaseline.den),
                  Frac(MinThreshold, 1)))

\* ------------------------------------------------------------------------
\* Calibrator: state and its persistence
\* ------------------------------------------------------------------------

\* the zero time.Time (year 1): far before every time of the model
ZeroTime == 0 - 50 * 365 * 24 * Hour

\* the zero value of calibrator.State
ZeroState ==
    [InitialDone |-> FALSE, LastCalibTime |-> ZeroTime, StartTime |-> ZeroTime,
     CurrentThreshold |-> 0, IdleBaseline |-> Frac(0, 1)]

\* calibration.state does not exist
NoStateFile == [exists |-> FALSE, lines |-> <<>>]

\* a formatter that writes the boolean capitalised
FormatBool_Title(b) == IF b THEN "True" ELSE "False"

\* strconv.FormatBool
FormatBool(b) == IF b THEN "true" ELSE "false"

\* fmt "%.2f" of a non-negative fraction, as a number of hundredths:
\* the nearest hundredth, an exact tie going to the even one
FormatHundredths(x) ==
    LET h == (100 * x.num) \div x.den
        rem == 100 * x.num - h * x.den
    IN  IF 2 * rem > x.den THEN h + 1
        ELSE IF 2 * rem = x.den /\ h % 2 = 1 THEN h + 1
        ELSE h

\* strconv.ParseFloat of a text written by "%.2f"
ParseHundredths(h) == Frac(h, 100)

\* the five lines saveState writes, in its order
StateLines(st) ==
    << [key |-> "initial_done", val |-> FormatBool(st.InitialDone)],
       [key |-> "last_calib_time", val |-> st.LastCalibTime],
       [key |-> "start_time", val |-> st.StartTime],
       [key |-> "current_threshold", val |-> st.CurrentThreshold],
       [key |-> "idle_baseline", val |-> FormatHundredths(st.IdleBaseline)] >>

\* saveState: written = -1 when os.Create fails (the file stays as it was),
\* 0..4 when the write of line written+1 fails (the file was truncated and
\* holds the lines before it), 5 when all lines are written
saveState(file, st, written) ==
    IF written < 0 THEN file
    ELSE [exists |-> TRUE, lines |-> SubSeq(StateLines(st), 1, written)]

\* a loader that takes the presence of the initial_done line for true
loadLine_DoneIfPresent(st, line) ==
    CASE line.key = "initial_done" -> [st EXCEPT !.InitialDone = TRUE]
      [] line.key = "last_calib_time" -> [st EXCEPT !.LastCalibTime = line.val]
      [] line.key = "start_time" -> [st EXCEPT !.StartTime = line.val]
      [] line.key = "current_threshold" -> [st EXCEPT !.CurrentThreshold = line.val]
      [] line.key = "idle_baseline" ->
             [st EXCEPT !.IdleBaseline = ParseHundredths(line.val)]
      [] OTHER -> st

\* the switch of loadState on one line
loadLine(st, line) ==
    CASE line.key = "initial_done" -> [st EXCEPT !.InitialDone = (line.val = "true")]
      [] line.key = "last_calib_time" -> [st EXCEPT !.LastCalibTime = line.val]
      [] line.key = "start_time" -> [st EXCEPT !.StartTime = line.val]
      [] line.key = "current_threshold" -> [st EXCEPT !.CurrentThreshold = line.val]
      [] line.key = "idle_baseline" ->
             [st EXCEPT !.IdleBaseline = ParseHundredths(line.val)]
      [] OTHER -> st

RECURSIVE loadLines(_, _)
loadLines(st, lines) ==
    IF lines = <<>> THEN st ELSE loadLines(loadLine(st, Head(lines)), Tail(lines))

\* loadState into a fresh Calibrator: nothing is read when the file cannot
\* be opened
loadState(file) ==
    IF file.exists THEN loadLines(ZeroState, file.lines) ELSE ZeroState

\* calibrator.New: load, and on a zero StartTime stamp it and save;
\* gives the Calibrator's state and the file left behind
New(file, t, written) ==
    LET loaded == loadState(file)
    IN  IF loaded.StartTime = ZeroTime
        THEN LET st == [loaded EXCEPT !.StartTime = t]
             IN  [state |-> st, file |-> saveState(file, st, written), saved |-> TRUE]
        ELSE [state |-> loaded, file |-> file, saved |-> FALSE]

\* time.Since
Since(t, at) == at - t

\* the values of default.ini the model runs with
\* (CalibrationConfig.InitialLookback, .RecalibrationInterval,
\* .RecalibrationLookback), in seconds
InitialLookback == calibrationCheckInterval + 10 * samplingInterval
RecalibrationInterval == calibrationCheckInterval
RecalibrationLookback == 2 * calibrationCheckInterval

IsInLearningPhase(st) == ~st.InitialDone

LearningTimeRemaining(st, t) ==
    LET remaining == InitialLookback - Since(st.StartTime, t)
    IN  IF remaining < 0 THEN 0 ELSE remaining

\* int(math.Round(c.state.CurrentThreshold))
CurrentThreshold(st) == st.CurrentThreshold

ShouldRunInitial(st, t) ==
    ~st.InitialDone /\ Since(st.StartTime, t) >= InitialLookback

\* a ShouldRunWeekly that does not look at InitialDone
ShouldRunWeekly_AnyPhase(st, t) ==
    Since(st.LastCalibTime, t) >= RecalibrationInterval

ShouldRunWeekly(st, t) ==
    st.InitialDone /\ Since(st.LastCalibTime, t) >= RecalibrationInterval

\* a variant of Run that counts the samples of the whole snapshot
Run_CountsSnapshot(st, file, samples, lookback, t, written) ==
    LET cutoff == t - lookback
        window == SelectSeq(samples, LAMBDA s : After(s.Timestamp, cutoff))
        found == findIdleBaseline(window)
        rounded == NewThreshold(found.baseline)
        st2 == [st EXCEPT !.InitialDone = TRUE,
                          !.LastCalibTime = t,
                          !.CurrentThreshold = rounded,
                          !.IdleBaseline = found.baseline]
    IN  IF Len(samples) < minCalibSamples
        THEN [err |-> "insufficient samples", threshold |-> 0,
              state |-> st, file |-> file]
        ELSE IF ~found.ok
             THEN [err |-> "no stable idle windows found", threshold |-> 0,
                   state |-> st, file |-> file]
             ELSE [err |-> "", threshold |-> rounded,
                   state |-> st2, file |-> saveState(file, st2, written)]

\* a variant of Run that smooths: once calibrated, the new threshold is the
\* middle of the previous threshold and the recomputed one
Run_Blends(st, file, samples, lookback, t, written) ==
    LET cutoff == t - lookback
        window == SelectSeq(samples, LAMBDA s : After(s.Timestamp, cutoff))
        found == findIdleBaseline(window)
        recomputed == NewThreshold(found.baseline)
        rounded == IF st.InitialDone
                   THEN (st.CurrentThreshold + recomputed) \div 2
                   ELSE recomputed
        st2 == [st EXCEPT !.InitialDone = TRUE,
                          !.LastCalibTime = t,
                          !.CurrentThreshold = rounded,
                          !.IdleBaseline = found.baseline]
    IN  IF Len(window) < minCalibSamples
        THEN [err |-> "insufficient samples", threshold |-> 0,
              state |-> st, file |-> file]
        ELSE IF ~found.ok
             THEN [err |-> "no stable idle windows found", threshold |-> 0,
                   state |-> st, file |-> file]
             ELSE [err |-> "", threshold |-> rounded,
                   state |-> st2, file |-> saveState(file, st2, written)]

\* Calibrator.Run(samples, lookback) at time t with the Calibrator's state
\* st and the state file: the returned (threshold, err), the state and the
\* file afterwards
Run(st, file, samples, lookback, t, written) ==
    LET cutoff == t - lookback
        window == SelectSeq(samples, LAMBDA s : After(s.Timestamp, cutoff))
        found == findIdleBaseline(window)
        rounded == NewThreshold(found.baseline)
        st2 == [st EXCEPT !.InitialDone = TRUE,
                          !.LastCalibTime = t,
                          !.CurrentThreshold = rounded,
                          !.IdleBaseline = found.baseline]
    IN  IF Len(window) < minCalibSamples
        THEN [err |-> "insufficient samples", threshold |-> 0,
              state |-> st, file |-> file]
        ELSE IF ~found.ok
             THEN [err |-> "no stable idle windows found", threshold |-> 0,
                   state |-> st, file |-> file]
             ELSE [err |-> "", threshold |-> rounded,
                   state |-> st2, file |-> saveState(file, st2, written)]

\* ------------------------------------------------------------------------
\* Configuration (config.Load)
\* ------------------------------------------------------------------------

\* One key of the [monitoring] section: absent (or commented out), present
\* with a text that is no integer, or present with an integer value.
NoKey == [present |-> FALSE, isInt |-> FALSE, val |-> 0]
TextKey == [present |-> TRUE, isInt |-> FALSE, val |-> 0]
IntKey(v) == [present |-> TRUE, isInt |-> TRUE, val |-> v]

\* config.ini: missing, unparsable, or its three keys; banner is the status
\* banner the calibrator keeps in the file's comments
ConfigFile(cpuCheck, userCheck, threshold) ==
    [exists |-> TRUE, parses |-> TRUE, cpu_check_minutes |-> cpuCheck,
     user_check_minutes |-> userCheck, cpu_threshold |-> threshold,
     banner |-> "none"]
MissingFile == [ConfigFile(NoKey, NoKey, NoKey) EXCEPT !.exists = FALSE]
BrokenFile == [ConfigFile(NoKey, NoKey, NoKey) EXCEPT !.parses = FALSE]

\* config.Load(path): (cfg, err)
Load(file) ==
    LET defaults == [CPUCheckMinutes |-> DefaultCPUCheckMinutes,
                     UserCheckMinutes |-> DefaultUserCheckMinutes,
                     CPUThreshold |-> DefaultCPUThreshold,
                     AutoMode |-> TRUE]
        k1 == file.cpu_check_minutes
        k2 == file.user_check_minutes
        k3 == file.cpu_threshold
        c1 == IF k1.present /\ k1.isInt /\ k1.val > 0
              THEN [defaults EXCEPT !.CPUCheckMinutes = k1.val] ELSE defaults
        c2 == IF k2.present /\ k2.isInt /\ k2.val > 0
              THEN [c1 EXCEPT !.UserCheckMinutes = k2.val] ELSE c1
        c3 == IF k3.present /\ k3.isInt /\ k3.val >= 0 /\ k3.val <= 100
              THEN [c2 EXCEPT !.CPUThreshold = k3.val, !.AutoMode = FALSE] ELSE c2
    IN  IF ~file.exists THEN [err |-> FALSE, cfg |-> defaults]
        ELSE IF ~file.parses THEN [err |-> TRUE, cfg |-> defaults]
        ELSE [err |-> FALSE, cfg |-> c3]

\* writeBannerToConfig: an unreadable file is left alone; otherwise the old
\* banner is replaced by the new one (comment lines only)
writeBannerToConfig(file, banner) ==
    IF ~file.exists THEN file ELSE [file EXCEPT !.banner = banner]

\* calibrator.StripBanner: an unreadable file is left alone
StripBanner(file) ==
    IF ~file.exists THEN file ELSE [file EXCEPT !.banner = "none"]

\* ------------------------------------------------------------------------
\* The agent process (cmd/idleshutdown/main.go)
\* ------------------------------------------------------------------------

\* what the machine can show to the sensors
CpuLoads == {2, 30}
UserCounts == {0, 1}

\* the contents config.ini takes in the model
AutoFile == ConfigFile(IntKey(1), IntKey(1), NoKey)
ManualFile == ConfigFile(IntKey(2), IntKey(2), IntKey(DefaultCPUThreshold))
ConfigFiles == {AutoFile, ManualFile, MissingFile, BrokenFile}

\* the steps of the clock: one sampling interval, or a stall of the machine
\* (no task runs meanwhile) of an hour
Steps == {samplingInterval, calibrationCheckInterval}

\* the number of lines saveState writes
nStateLines == 5
\* outcomes of saveState: see saveState
SaveOk == nStateLines
SaveOutcomes == (0 - 1)..SaveOk

NoDecision ==
    [kind |-> "none", at |-> 0, reloadErr |-> FALSE, auto |-> FALSE,
     threshold |-> 0, cpuMinutes |-> 0, userMinutes |-> 0,
     cpuBelow |-> FALSE, noUsers |-> FALSE, sink |-> 0, sinkErr |-> "",
     prevSink |-> 0, prevSinkErr |-> ""]

NoRun == [kind |-> "none", at |-> 0, err |-> "", threshold |-> 0]

\* no successful run is waiting for its first decision tick
NoPending == 0 - 1

NoCalls ==
    [cpu |-> ZeroTime, cpuOk |-> ZeroTime, user |-> ZeroTime, userOk |-> ZeroTime,
     userBusy |-> ZeroTime]

\* main() up to the evaluation loop, started at time t with the two files
\* as they are: the process state and the files it leaves
StartProcess(file, sfile, t, written) ==
    LET loaded == Load(file)
        c == New(sfile, t, written)
    IN  IF loaded.err
        THEN [ok |-> FALSE, cfg |-> loaded.cfg, cfgFile |-> file, calibSet |-> FALSE,
              state |-> ZeroState, stateFile |-> sfile]
        ELSE IF loaded.cfg.AutoMode
             THEN IF IsInLearningPhase(c.state)
                  THEN [ok |-> TRUE, cfg |-> loaded.cfg,
                        cfgFile |-> writeBannerToConfig(file, "learning"),
                        calibSet |-> TRUE, state |-> c.state, stateFile |-> c.file]
                  ELSE [ok |-> TRUE,
                        cfg |-> [loaded.cfg EXCEPT !.CPUThreshold = CurrentThreshold(c.state)],
                        cfgFile |-> file,
                        calibSet |-> TRUE, state |-> c.state, stateFile |-> c.file]
             ELSE [ok |-> TRUE, cfg |-> loaded.cfg, cfgFile |-> StripBanner(file),
                   calibSet |-> FALSE, state |-> ZeroState, stateFile |-> sfile]

\* the tickers of a process started at start: a tick of period interval
\* falls in (from, to]
TickIn(start, interval, from, to) ==
    (to - start) \div interval > (from - start) \div interval

\* the ticker channels right after the process start: the two monitors take
\* their initial reading at once
StartDue == [cpu |-> TRUE, user |-> TRUE, eval |-> FALSE, calib |-> FALSE]

NothingDue == [cpu |-> FALSE, user |-> FALSE, eval |-> FALSE, calib |-> FALSE]

\* Executor.Shutdown(reason): the error it returns.  A dry run and a
\* shutdown command that starts the shutdown return nil.
Shutdown(cmdFails) == IF cmdFails THEN "shutdown command failed" ELSE ""

\* a variant of evaluateShutdownCondition that shuts down when either
\* condition is met
evaluateShutdownCondition_Either(c, cpuS, userS, t) ==
    LET cpuBelowThreshold == IsBelowThreshold(cpuS, t, c.CPUThreshold, c.CPUCheckMinutes)
        noUsers == NoUsersLoggedIn(userS, t, c.UserCheckMinutes)
    IN  [cpuBelow |-> cpuBelowThreshold, noUsers |-> noUsers,
         sink |-> IF cpuBelowThreshold \/ noUsers THEN 1 ELSE 0]

\* evaluateShutdownCondition(cfg, cpuMon, userMon, shutdownExec) at time t:
\* the two verdicts and the number of calls of shutdownExec.Shutdown
evaluateShutdownCondition(c, cpuS, userS, t) ==
    LET cpuBelowThreshold == IsBelowThreshold(cpuS, t, c.CPUThreshold, c.CPUCheckMinutes)
        noUsers == NoUsersLoggedIn(userS, t, c.UserCheckMinutes)
    IN  [cpuBelow |-> cpuBelowThreshold, noUsers |-> noUsers,
         sink |-> IF cpuBelowThreshold /\ noUsers THEN 1 ELSE 0]

\* a reload that goes on with the defaults when the file cannot be parsed
ReloadConfig_DefaultsOnError(old, file) ==
    Load(file).cfg

\* the config the tick goes on with: the reloaded one, or the last known one
\* when the reload fails
ReloadConfig(old, file) ==
    IF Load(file).err THEN old ELSE Load(file).cfg

\* the tick skips the evaluation: auto mode, a calibrator, learning phase
SkipsEvaluation(c, hasCalib, st) ==
    c.AutoMode /\ hasCalib /\ IsInLearningPhase(st)

\* a tick that leaves the configuration's threshold as loaded
EffectiveConfig_AsLoaded(c, hasCalib, st) ==
    c

\* the threshold the tick evaluates with
EffectiveConfig(c, hasCalib, st) ==
    IF c.AutoMode /\ hasCalib
    THEN [c EXCEPT !.CPUThreshold = CurrentThreshold(st)]
    ELSE c

\* a calibration-check tick that goes on to restartService after a run that
\* returned an error
calibrationTick_RestartsOnError(st, sfile, file, cpuS, t, written) ==
    LET samples == GetSamples(cpuS)
        lookback == IF ShouldRunInitial(st, t) THEN InitialLookback
                    ELSE RecalibrationLookback
        kind == IF ShouldRunInitial(st, t) THEN "initial" ELSE "weekly"
    IN  IF ShouldRunInitial(st, t) \/ ShouldRunWeekly(st, t)
        THEN CHOOSE o \in
                 {[state |-> r.state, stateFile |-> r.file,
                   cfgFile |-> IF r.err = "" THEN writeBannerToConfig(file, "calibrated")
                               ELSE file,
                   restart |-> TRUE,
                   run |-> [kind |-> kind, at |-> t, err |-> r.err,
                            threshold |-> r.threshold]] :
                  r \in {Run(st, sfile, samples, lookback, t, written)}} : TRUE
        ELSE IF IsInLearningPhase(st)
             THEN [state |-> st, stateFile |-> sfile,
                   cfgFile |-> writeBannerToConfig(file, "learning"),
                   restart |-> FALSE,
                   run |-> [kind |-> "banner", at |-> t, err |-> "", threshold |-> 0]]
             ELSE [state |-> st, stateFile |-> sfile, cfgFile |-> file,
                   restart |-> FALSE,
                   run |-> [kind |-> "idle", at |-> t, err |-> "", threshold |-> 0]]

\* the calibration-check tick of runCalibrationLoop at time t
calibrationTick(st, sfile, file, cpuS, t, written) ==
    LET samples == GetSamples(cpuS)
        lookback == IF ShouldRunInitial(st, t) THEN InitialLookback
                    ELSE RecalibrationLookback
        kind == IF ShouldRunInitial(st, t) THEN "initial" ELSE "weekly"
    IN  IF ShouldRunInitial(st, t) \/ ShouldRunWeekly(st, t)
        THEN CHOOSE o \in
                 {[state |-> r.state, stateFile |-> r.file,
                   cfgFile |-> IF r.err = "" THEN writeBannerToConfig(file, "calibrated")
                               ELSE file,
                   restart |-> (r.err = ""),
                   run |-> [kind |-> kind, at |-> t, err |-> r.err,
                            threshold |-> r.threshold]] :
                  r \in {Run(st, sfile, samples, lookback, t, written)}} : TRUE
        ELSE IF IsInLearningPhase(st)
             THEN [state |-> st, stateFile |-> sfile,
                   cfgFile |-> writeBannerToConfig(file, "learning"),
                   restart |-> FALSE,
                   run |-> [kind |-> "banner", at |-> t, err |-> "", threshold |-> 0]]
             ELSE [state |-> st, stateFile |-> sfile, cfgFile |-> file,
                   restart |-> FALSE,
                   run |-> [kind |-> "idle", at |-> t, err |-> "", threshold |-> 0]]

\* ------------------------------------------------------------------------
\* Actions
\* ------------------------------------------------------------------------

Cost(isEvent) == IF isEvent THEN 1 ELSE 0

\* The clock moves on.  A running process has by then served every tick
\* that was waiting, and a restart that was asked for has happened.
Advance ==
    \E d \in Steps :
        /\ ticks < MaxTicks
        /\ events + Cost(d # samplingInterval) <= MaxEvents
        /\ running => (due = NothingDue /\ ~restartReq /\ signal # "raised")
        /\ now' = now + d
        /\ ticks' = ticks + 1
        /\ events' = events + Cost(d # samplingInterval)
        /\ due' = IF running
                  THEN [cpu |-> TickIn(procStart, samplingInterval, now, now + d),
                        user |-> TickIn(procStart, samplingInterval, now, now + d),
                        eval |-> TickIn(procStart, evaluationInterval, now, now + d),
                        calib |-> calibSet /\ TickIn(procStart, calibrationCheckInterval,
                                                     now, now + d)]
                  ELSE due
        /\ UNCHANGED <<mu, pc, locals,
                       signal, pending, load, users, running, procStart, cpuSamples, userSamples,
                       cfgFile, cfg, calibSet, state, stateFile, restartReq, dec,
                       run, lastCall, everCalibrated, arg, res>>

\* The machine's load changes.
LoadChange ==
    \E l \in CpuLoads \ {load} :
        /\ events < MaxEvents
        /\ events' = events + 1
        /\ load' = l
        /\ UNCHANGED <<mu, pc, locals,
                       signal, pending, now, ticks, users, running, procStart, cpuSamples, userSamples,
                       due, cfgFile, cfg, calibSet, state, stateFile, restartReq,
                       dec, run, lastCall, everCalibrated, arg, res>>

\* Users log in or out.
UserChange ==
    \E u \in UserCounts \ {users} :
        /\ events < MaxEvents
        /\ events' = events + 1
        /\ users' = u
        /\ UNCHANGED <<mu, pc, locals,
                       signal, pending, now, ticks, load, running, procStart, cpuSamples, userSamples,
                       due, cfgFile, cfg, calibSet, state, stateFile, restartReq,
                       dec, run, lastCall, everCalibrated, arg, res>>

\* Somebody edits, removes or damages config.ini.
EditConfig ==
    \E f \in ConfigFiles :
        /\ events < MaxEvents
        /\ f # [cfgFile EXCEPT !.banner = "none"]
        /\ events' = events + 1
        /\ cfgFile' = IF f.exists THEN [f EXCEPT !.banner = cfgFile.banner] ELSE f
        /\ UNCHANGED <<mu, pc, locals,
                       signal, pending, now, ticks, load, users, running, procStart, cpuSamples,
                       userSamples, due, cfg, calibSet, state, stateFile, restartReq,
                       dec, run, lastCall, everCalibrated, arg, res>>

\* a takeSample that prunes the buffer although the read failed
CpuSample_PrunesOnError ==
    \E ok \in BOOLEAN :
        /\ running /\ due.cpu
        /\ events + Cost(~ok) <= MaxEvents
        /\ events' = events + Cost(~ok)
        /\ due' = [due EXCEPT !.cpu = FALSE]
        /\ cpuSamples' = IF ok THEN CpuTakeSample(cpuSamples, now, load)
                         ELSE PruneOld(cpuSamples, now - samplingInterval)
        /\ lastCall' = [lastCall EXCEPT !.cpu = now,
                                        !.cpuOk = IF ok THEN now ELSE @]
        /\ UNCHANGED <<mu, pc, locals,
                       signal, pending, now, ticks, load, users, running, procStart, userSamples,
                       cfgFile, cfg, calibSet, state, stateFile, restartReq, dec,
                       run, everCalibrated, arg, res>>

\* CPUMonitor.takeSample on a tick of its ticker (or the initial reading)
CpuSample ==
    \E ok \in BOOLEAN :
        /\ running /\ due.cpu
        /\ events + Cost(~ok) <= MaxEvents
        /\ events' = events + Cost(~ok)
        /\ due' = [due EXCEPT !.cpu = FALSE]
        /\ cpuSamples' = IF ok THEN CpuTakeSample(cpuSamples, now, load)
                         ELSE cpuSamples
        /\ lastCall' = [lastCall EXCEPT !.cpu = now,
                                        !.cpuOk = IF ok THEN now ELSE @]
        /\ UNCHANGED <<mu, pc, locals,
                       signal, pending, now, ticks, load, users, running, procStart, userSamples,
                       cfgFile, cfg, calibSet, state, stateFile, restartReq, dec,
                       run, everCalibrated, arg, res>>

\* UserMonitor.takeSample on a tick of its ticker (or the initial reading)
UserSample ==
    \E ok \in BOOLEAN :
        /\ running /\ due.user
        /\ events + Cost(~ok) <= MaxEvents
        /\ events' = events + Cost(~ok)
        /\ due' = [due EXCEPT !.user = FALSE]
        /\ userSamples' = IF ok THEN UserTakeSample(userSamples, now, users)
                          ELSE userSamples
        /\ lastCall' = [lastCall EXCEPT !.user = now,
                                        !.userOk = IF ok THEN now ELSE @,
                                        !.userBusy = IF ok /\ users > 0 THEN now ELSE @]
        /\ UNCHANGED <<mu, pc, locals,
                       signal, pending, now, ticks, load, users, running, procStart, cpuSamples,
                       cfgFile, cfg, calibSet, state, stateFile, restartReq, dec,
                       run, everCalibrated, arg, res>>

\* a loop that gives up when the sink returns an error
DecisionTick_ExitsOnSinkError ==
    LET c == ReloadConfig(cfg, cfgFile)
        eff == EffectiveConfig(c, calibSet, state)
        e == evaluateShutdownCondition(eff, cpuSamples, userSamples, now)
    IN  /\ running /\ due.eval
        /\ due' = [due EXCEPT !.eval = FALSE]
        /\ IF SkipsEvaluation(c, calibSet, state)
           THEN /\ cfg' = c
                /\ dec' = [NoDecision EXCEPT !.kind = "skip", !.at = now,
                                             !.reloadErr = Load(cfgFile).err,
                                             !.auto = c.AutoMode,
                                             !.prevSink = dec.sink,
                                             !.prevSinkErr = dec.sinkErr]
                /\ events' = events
                /\ running' = running
           ELSE \E cmdFails \in BOOLEAN :
                /\ cmdFails => e.sink = 1
                /\ events + Cost(cmdFails) <= MaxEvents
                /\ events' = events + Cost(cmdFails)
                /\ cfg' = eff
                /\ dec' = [kind |-> "eval", at |-> now,
                           reloadErr |-> Load(cfgFile).err, auto |-> c.AutoMode,
                           threshold |-> eff.CPUThreshold,
                           cpuMinutes |-> eff.CPUCheckMinutes,
                           userMinutes |-> eff.UserCheckMinutes,
                           cpuBelow |-> e.cpuBelow, noUsers |-> e.noUsers,
                           sink |-> e.sink,
                           sinkErr |-> IF e.sink = 1 THEN Shutdown(cmdFails) ELSE "",
                           prevSink |-> dec.sink, prevSinkErr |-> dec.sinkErr]
                /\ running' = (running /\ ~cmdFails)
        /\ pending' = IF c.AutoMode THEN NoPending ELSE pending
        /\ UNCHANGED <<mu, pc, locals,
                       signal, now, ticks, load, users, procStart,
                       cpuSamples, userSamples, cfgFile, calibSet, state, stateFile,
                       restartReq, run, lastCall, everCalibrated, arg, res>>

\* One tick of main's evaluation loop.  The error of a sink call is logged
\* and the loop goes on.
DecisionTick ==
    LET c == ReloadConfig(cfg, cfgFile)
        eff == EffectiveConfig(c, calibSet, state)
        e == evaluateShutdownCondition(eff, cpuSamples, userSamples, now)
    IN  /\ running /\ due.eval
        /\ due' = [due EXCEPT !.eval = FALSE]
        /\ IF SkipsEvaluation(c, calibSet, state)
           THEN /\ cfg' = c
                /\ dec' = [NoDecision EXCEPT !.kind = "skip", !.at = now,
                                             !.reloadErr = Load(cfgFile).err,
                                             !.auto = c.AutoMode,
                                             !.prevSink = dec.sink,
                                             !.prevSinkErr = dec.sinkErr]
                /\ events' = events
                /\ running' = running
           ELSE \E cmdFails \in BOOLEAN :
                /\ cmdFails => e.sink = 1
                /\ events + Cost(cmdFails) <= MaxEvents
                /\ events' = events + Cost(cmdFails)
                /\ cfg' = eff
                /\ dec' = [kind |-> "eval", at |-> now,
                           reloadErr |-> Load(cfgFile).err, auto |-> c.AutoMode,
                           threshold |-> eff.CPUThreshold,
                           cpuMinutes |-> eff.CPUCheckMinutes,
                           userMinutes |-> eff.UserCheckMinutes,
                           cpuBelow |-> e.cpuBelow, noUsers |-> e.noUsers,
                           sink |-> e.sink,
                           sinkErr |-> IF e.sink = 1 THEN Shutdown(cmdFails) ELSE "",
                           prevSink |-> dec.sink, prevSinkErr |-> dec.sinkErr]
                /\ running' = running
        /\ pending' = IF c.AutoMode THEN NoPending ELSE pending
        /\ UNCHANGED <<mu, pc, locals,
                       signal, now, ticks, load, users, procStart,
                       cpuSamples, userSamples, cfgFile, calibSet, state, stateFile,
                       restartReq, run, lastCall, everCalibrated, arg, res>>

\* a runCalibrationLoop that returns, instead of continuing, when a run fails
CalibrationTick_ReturnsOnError ==
    /\ running /\ calibSet /\ due.calib
    /\ \E written \in SaveOutcomes :
        /\ events + Cost(written # SaveOk) <= MaxEvents
        /\ (written # SaveOk)
              => (ShouldRunInitial(state, now) \/ ShouldRunWeekly(state, now))
        /\ \E r \in {calibrationTick(state, stateFile, cfgFile, cpuSamples, now,
                                      written)} :
            \E restarts \in BOOLEAN :
                /\ (written # SaveOk) => r.restart
                /\ restarts => r.restart
                /\ events' = events + Cost(written # SaveOk)
                /\ due' = [due EXCEPT !.calib = FALSE]
                /\ state' = r.state
                /\ stateFile' = r.stateFile
                /\ cfgFile' = r.cfgFile
                /\ run' = r.run
                /\ calibSet' = (calibSet /\ r.run.err = "")
                /\ restartReq' = (restartReq \/ restarts)
                /\ everCalibrated' = (everCalibrated \/ r.restart)
                /\ pending' = IF r.restart THEN r.run.threshold ELSE pending
                /\ UNCHANGED <<mu, pc, locals,
                               signal, now, ticks, load, users, running, procStart,
                               cpuSamples, userSamples, cfg, dec,
                               lastCall, arg, res>>

\* One tick of runCalibrationLoop.  After a successful run restartService
\* asks systemd for a restart, which may fail.
CalibrationTick ==
    /\ running /\ calibSet /\ due.calib
    /\ \E written \in SaveOutcomes :
        /\ events + Cost(written # SaveOk) <= MaxEvents
        /\ (written # SaveOk)
              => (ShouldRunInitial(state, now) \/ ShouldRunWeekly(state, now))
        /\ \E r \in {calibrationTick(state, stateFile, cfgFile, cpuSamples, now,
                                      written)} :
            \E restarts \in BOOLEAN :
                /\ (written # SaveOk) => r.restart
                /\ restarts => r.restart
                /\ events' = events + Cost(written # SaveOk)
                /\ due' = [due EXCEPT !.calib = FALSE]
                /\ state' = r.state
                /\ stateFile' = r.stateFile
                /\ cfgFile' = r.cfgFile
                /\ run' = r.run
                /\ restartReq' = (restartReq \/ restarts)
                /\ everCalibrated' = (everCalibrated \/ r.restart)
                /\ pending' = IF r.restart THEN r.run.threshold ELSE pending
                /\ UNCHANGED <<mu, pc, locals,
                               signal, now, ticks, load, users, running, procStart,
                               cpuSamples, userSamples, cfg, calibSet, dec,
                               lastCall, arg, res>>

\* The service is restarted: by systemd on restartService's request, or from
\* outside (an operator, a reboot, a crash and systemd's restart).
Restart ==
    \E written \in SaveOutcomes :
        LET p == StartProcess(cfgFile, stateFile, now, written)
            saves == Load(cfgFile).cfg.AutoMode /\ ~Load(cfgFile).err
                     /\ loadState(stateFile).StartTime = ZeroTime
        IN  /\ (written # SaveOk) => saves
            /\ events + Cost(~restartReq) + Cost(written # SaveOk) <= MaxEvents
            /\ events' = events + Cost(~restartReq) + Cost(written # SaveOk)
            /\ running' = p.ok
            /\ procStart' = now
            /\ cpuSamples' = <<>>
            /\ userSamples' = <<>>
            /\ due' = IF p.ok THEN StartDue ELSE NothingDue
            /\ cfg' = p.cfg
            /\ cfgFile' = p.cfgFile
            /\ calibSet' = p.calibSet
            /\ state' = p.state
            /\ stateFile' = p.stateFile
            /\ restartReq' = FALSE
            /\ signal' = "none"
            /\ dec' = NoDecision
            /\ run' = NoRun
            /\ lastCall' = NoCalls
            /\ UNCHANGED <<mu, pc, locals,
                           pending, now, ticks, load, users, everCalibrated, arg, res>>

\* SIGINT or SIGTERM is sent to the process: signal.Notify puts it in sigCh.
Signal ==
    /\ running /\ signal = "none"
    /\ events < MaxEvents
    /\ events' = events + 1
    /\ signal' = "raised"
    /\ UNCHANGED <<mu, pc, locals,
                   pending, now, ticks, load, users, running, procStart, cpuSamples,
                   userSamples, due, cfgFile, cfg, calibSet, state, stateFile,
                   restartReq, dec, run, lastCall, everCalibrated, arg, res>>

\* a main that notes the signal and stays in its loop
Stop_KeepsLooping ==
    /\ running /\ signal = "raised"
    /\ signal' = "observed"
    /\ UNCHANGED <<mu, pc, locals,
                   pending, now, ticks, events, load, users, running, procStart, cpuSamples,
                   userSamples, due, cfgFile, cfg, calibSet, state, stateFile,
                   restartReq, dec, run, lastCall, everCalibrated, arg, res>>

\* main's select takes the signal: it closes stopCh and returns, which ends
\* the process and with it the two monitors' loops and runCalibrationLoop.
Stop ==
    /\ running /\ signal = "raised"
    /\ signal' = "observed"
    /\ running' = FALSE
    /\ due' = NothingDue
    /\ UNCHANGED <<mu, pc, locals,
                   pending, now, ticks, events, load, users, procStart, cpuSamples,
                   userSamples, cfgFile, cfg, calibSet, state, stateFile,
                   restartReq, dec, run, lastCall, everCalibrated, arg, res>>

NoArg == [op |-> "none"]

\* a sync.RWMutex nobody holds, and the two monitors' mutexes like that
Unlocked == [writer |-> "none", readers |-> {}]
NoLocks == [cpu |-> Unlocked, user |-> Unlocked]

\* the tasks of the process: the two sampling goroutines, main's evaluation
\* loop and runCalibrationLoop; every one of them waiting in its select
Tasks == {"cpu", "user", "main", "calib"}
AtSelect == [t \in Tasks |-> "select"]
NoLocals == [t \in Tasks |-> NoArg]

\* no task is inside a handler
BetweenHandlers == mu = NoLocks /\ pc = AtSelect /\ locals = NoLocals

Init ==
    /\ now = 0 /\ ticks = 0 /\ events = 0
    /\ load \in CpuLoads
    /\ users \in UserCounts
    /\ \E f \in {AutoFile, ManualFile, MissingFile} :
           LET p == StartProcess(f, NoStateFile, 0, SaveOk)
           IN  /\ cfgFile = p.cfgFile
               /\ cfg = p.cfg
               /\ calibSet = p.calibSet
               /\ state = p.state
               /\ stateFile = p.stateFile
    /\ running = TRUE
    /\ procStart = 0
    /\ cpuSamples = <<>>
    /\ userSamples = <<>>
    /\ due = StartDue
    /\ restartReq = FALSE
    /\ signal = "none"
    /\ dec = NoDecision
    /\ run = NoRun
    /\ lastCall = NoCalls
    /\ everCalibrated = FALSE
    /\ pending = NoPending
    /\ arg = NoArg
    /\ res = NoArg
    /\ BetweenHandlers

Next ==
    \/ Advance
    \/ LoadChange
    \/ UserChange
    \/ EditConfig
    \/ CpuSample
    \/ UserSample
    \/ DecisionTick
    \/ CalibrationTick
    \/ Restart
    \/ Signal
    \/ Stop

Spec == Init /\ [][Next]_vars

\* ------------------------------------------------------------------------
\* Claims about the decision loop (checked under Spec)
\* ------------------------------------------------------------------------

\* C1 (as claimed): a decision tick whose configuration is in automatic mode
\* while no calibration has ever succeeded skips the evaluation: it evaluates
\* neither predicate and does not call the shutdown sink.
C1_NoEvaluationBeforeCalibration ==
    (dec.kind # "none" /\ dec.auto /\ ~everCalibrated) =>
        (dec.kind = "skip" /\ dec.sink = 0)

\* C2: a decision tick that reaches the evaluation calls the shutdown sink
\* once when IsBelowThreshold(cfg.CPUThreshold, cfg.CPUCheckMinutes) and
\* NoUsersLoggedIn(cfg.UserCheckMinutes) are both true of the buffers at the
\* time of the tick, and does not call it when either is false.
C2_SinkIffBothPredicates ==
    [][(dec' # dec /\ dec'.kind = "eval") =>
          dec'.sink =
              IF /\ IsBelowThreshold(cpuSamples, now, cfg'.CPUThreshold,
                                     cfg'.CPUCheckMinutes)
                 /\ NoUsersLoggedIn(userSamples, now, cfg'.UserCheckMinutes)
              THEN 1 ELSE 0]_vars

\* C2, witness: a tick evaluated, found both predicates true and called the
\* sink.
C2_Witness ==
    dec.kind = "eval" /\ dec.cpuBelow /\ dec.noUsers /\ dec.sink = 1

\* C3 (as claimed): a predicate called with a window of N minutes is true,
\* and the sink is called, only when the monitors of the running process
\* have been sampling for at least N minutes.
C3_TrueOnlyAfterFullWindow ==
    dec.kind = "eval" =>
        /\ dec.cpuBelow => dec.at - procStart >= dec.cpuMinutes * Minute
        /\ dec.noUsers => dec.at - procStart >= dec.userMinutes * Minute

\* ------------------------------------------------------------------------
\* The two predicates as functions of the buffers (SpecPredicates)
\* ------------------------------------------------------------------------

\* the buffers hold at most one sample in each of the last PredSlots minutes
PredSlots == 6

\* a reading: CPU usage in percent, or a number of logged-in users
PredValues == {0, 1, 2}

PredThresholds == {1, 2}

\* no reading was recorded in the slot
NoReading == 0 - 1

PredNow == PredSlots * Minute

\* the rest of the process while a function is applied on its own: nothing
\* is due, no decision and no calibration has been made
AtRest ==
    /\ ticks = 0 /\ events = 0
    /\ running = TRUE /\ procStart = 0
    /\ restartReq = FALSE /\ signal = "none"
    /\ dec = NoDecision /\ run = NoRun
    /\ lastCall = NoCalls
    /\ everCalibrated = FALSE /\ pending = NoPending
    /\ arg = NoArg /\ res = NoArg
    /\ BetweenHandlers

\* a process started in manual mode: main creates no Calibrator
NoCalibrator ==
    /\ cfgFile = ManualFile /\ cfg = Load(ManualFile).cfg
    /\ calibSet = FALSE
    /\ state = ZeroState /\ stateFile = NoStateFile

\* the buffer of the readings f[k] taken k minutes before t, oldest first, as
\* takeSample leaves it: appended in time order
RECURSIVE DrawnBuffer(_, _, _)
DrawnBuffer(f, k, t) ==
    IF k < 0 THEN <<>>
    ELSE (IF f[k] = NoReading THEN <<>>
          ELSE <<[timestamp |-> t - k * Minute, value |-> f[k]]>>)
         \o DrawnBuffer(f, k - 1, t)

AsCpuSamples(buf) ==
    [i \in 1..Len(buf) |-> [timestamp |-> buf[i].timestamp, usage |-> buf[i].value]]

AsUserSamples(buf) ==
    [i \in 1..Len(buf) |-> [timestamp |-> buf[i].timestamp, userCount |-> buf[i].value]]

InitPredicates ==
    /\ now = PredNow
    /\ \E f \in [0..(PredSlots - 1) -> PredValues \cup {NoReading}] :
           /\ cpuSamples = AsCpuSamples(DrawnBuffer(f, PredSlots - 1, PredNow))
           /\ userSamples = AsUserSamples(DrawnBuffer(f, PredSlots - 1, PredNow))
    /\ load = 0 /\ users = 0
    /\ due = NothingDue
    /\ NoCalibrator
    /\ AtRest

\* cpuMon.IsBelowThreshold(threshold, minutes) is called
ApplyIsBelowThreshold ==
    /\ \E minutes \in 1..PredSlots, threshold \in PredThresholds :
           res' = [op |-> "IsBelowThreshold", minutes |-> minutes,
                   threshold |-> threshold,
                   result |-> IsBelowThreshold(cpuSamples, now, threshold, minutes)]
    /\ UNCHANGED <<mu, pc, locals,
                   signal, pending, now, ticks, events, load, users, running, procStart,
                   cpuSamples, userSamples, due, cfgFile, cfg, calibSet, state,
                   stateFile, restartReq, dec, run, lastCall, everCalibrated, arg>>

\* userMon.NoUsersLoggedIn(minutes) is called
ApplyNoUsersLoggedIn ==
    /\ \E minutes \in 1..PredSlots :
           res' = [op |-> "NoUsersLoggedIn", minutes |-> minutes,
                   result |-> NoUsersLoggedIn(userSamples, now, minutes)]
    /\ UNCHANGED <<mu, pc, locals,
                   signal, pending, now, ticks, events, load, users, running, procStart,
                   cpuSamples, userSamples, due, cfgFile, cfg, calibSet, state,
                   stateFile, restartReq, dec, run, lastCall, everCalibrated, arg>>

NextPredicates ==
    \/ ApplyIsBelowThreshold
    \/ ApplyNoUsersLoggedIn

SpecPredicates == InitPredicates /\ [][NextPredicates]_vars

\* the positions of the retained samples with timestamp after t - N minutes
WindowIndices(samples, t, minutes) ==
    {i \in 1..Len(samples) : samples[i].timestamp > t - minutes * Minute}

\* max(1, N div 2)
GuardCount(minutes) ==
    IF minutes \div 2 > 1 THEN minutes \div 2 ELSE 1

\* C4: for both predicates and every window of N minutes, when fewer than
\* max(1, N div 2) retained samples have a timestamp after now - N minutes
\* (none at all included) the predicate is false whatever the samples hold.
C4_FewSamplesMeansFalse ==
    /\ (res.op = "IsBelowThreshold" /\
        Cardinality(WindowIndices(cpuSamples, now, res.minutes)) < GuardCount(res.minutes))
           => res.result = FALSE
    /\ (res.op = "NoUsersLoggedIn" /\
        Cardinality(WindowIndices(userSamples, now, res.minutes)) < GuardCount(res.minutes))
           => res.result = FALSE

\* C4, witness: IsBelowThreshold answered false for a window that holds
\* samples, all of them below the threshold, but fewer than the guard asks
C4_Witness ==
    /\ res.op = "IsBelowThreshold"
    /\ WindowIndices(cpuSamples, now, res.minutes) # {}
    /\ Cardinality(WindowIndices(cpuSamples, now, res.minutes)) < GuardCount(res.minutes)
    /\ \A i \in WindowIndices(cpuSamples, now, res.minutes) :
           cpuSamples[i].usage < res.threshold
    /\ res.result = FALSE

\* C5: when the window holds at least max(1, N div 2) samples,
\* IsBelowThreshold(threshold, N) is true exactly when every sample of the
\* window is strictly below the threshold; one sample equal to the threshold
\* or above it makes the predicate false.
C5_BelowIffAllStrictlyBelow ==
    (res.op = "IsBelowThreshold" /\
     Cardinality(WindowIndices(cpuSamples, now, res.minutes)) >= GuardCount(res.minutes))
        => (res.result <=>
                \A i \in WindowIndices(cpuSamples, now, res.minutes) :
                    cpuSamples[i].usage < res.threshold)

\* C5, witness: the guard is met, no sample of the window is above the
\* threshold, one is equal to it, and the predicate is false
C5_Witness ==
    /\ res.op = "IsBelowThreshold"
    /\ Cardinality(WindowIndices(cpuSamples, now, res.minutes)) >= GuardCount(res.minutes)
    /\ \A i \in WindowIndices(cpuSamples, now, res.minutes) :
           cpuSamples[i].usage <= res.threshold
    /\ \E i \in WindowIndices(cpuSamples, now, res.minutes) :
           cpuSamples[i].usage = res.threshold
    /\ res.result = FALSE

\* ------------------------------------------------------------------------
\* The two sample buffers under long gaps and failed reads (SpecBuffers)
\* ------------------------------------------------------------------------

MaxBufferTicks == 4

\* the time between two calls of takeSample: the sampling interval, or a gap
\* (a suspended machine) that reaches a retention horizon or stops just short
BufferSteps ==
    {samplingInterval,
     maxUserSampleRetention - samplingInterval, maxUserSampleRetention,
     maxSampleRetention - samplingInterval, maxSampleRetention}

InitBuffers ==
    /\ now = 0
    /\ load = 2 /\ users = 0
    /\ cpuSamples = <<>> /\ userSamples = <<>>
    /\ due = StartDue
    /\ NoCalibrator
    /\ AtRest

\* The clock moves on to the next tick of the two sampling tickers.
BufferAdvance ==
    \E d \in BufferSteps :
        /\ ticks < MaxBufferTicks
        /\ due = NothingDue
        /\ now' = now + d
        /\ ticks' = ticks + 1
        /\ due' = [NothingDue EXCEPT
                       !.cpu = TickIn(procStart, samplingInterval, now, now + d),
                       !.user = TickIn(procStart, samplingInterval, now, now + d)]
        /\ UNCHANGED <<mu, pc, locals,
                       signal, pending, events, load, users, running, procStart, cpuSamples,
                       userSamples, cfgFile, cfg, calibSet, state, stateFile,
                       restartReq, dec, run, lastCall, everCalibrated, arg, res>>

NextBuffers ==
    \/ BufferAdvance
    \/ CpuSample
    \/ UserSample

SpecBuffers == InitBuffers /\ [][NextBuffers]_vars

\* the timestamps of a buffer never decrease from one entry to the next
NonDecreasing(samples) ==
    \A i \in 1..(Len(samples) - 1) :
        samples[i].timestamp <= samples[i + 1].timestamp

\* every entry of the buffer is newer than t - horizon
NewerThan(samples, t, horizon) ==
    \A i \in 1..Len(samples) : samples[i].timestamp > t - horizon

\* C7 (as claimed): after any calls of takeSample, failed sensor reads
\* included, every entry of the CPU buffer (72 h) and of the session buffer
\* (2 h) is newer than the time of the latest call minus the horizon, and
\* the entries are in non-decreasing timestamp order.
C7_WithinHorizonOfLatestCall ==
    /\ NewerThan(cpuSamples, lastCall.cpu, maxSampleRetention)
    /\ NewerThan(userSamples, lastCall.user, maxUserSampleRetention)
    /\ NonDecreasing(cpuSamples) /\ NonDecreasing(userSamples)

\* C7 (amended): after any calls of takeSample, every entry of the CPU
\* buffer and of the session buffer is newer than the time of the latest
\* call whose sensor read succeeded minus the horizon, and the entries are
\* in non-decreasing timestamp order.
C7_WithinHorizonOfLatestGoodCall ==
    /\ NewerThan(cpuSamples, lastCall.cpuOk, maxSampleRetention)
    /\ NewerThan(userSamples, lastCall.userOk, maxUserSampleRetention)
    /\ NonDecreasing(cpuSamples) /\ NonDecreasing(userSamples)

\* C7, witness: the session buffer has dropped entries the CPU buffer still
\* holds, and the latest session read failed
C7_Witness ==
    /\ lastCall.user > lastCall.userOk
    /\ Len(userSamples) >= 1
    /\ Len(cpuSamples) >= Len(userSamples) + 2

\* ------------------------------------------------------------------------
\* The session monitor over a long run (SpecSessions)
\* ------------------------------------------------------------------------

MaxSessionTicks == 242

\* the windows asked of NoUsersLoggedIn: the default, and one minute more
\* than the session buffer retains
SessionWindows ==
    {DefaultUserCheckMinutes, maxUserSampleRetention \div Minute + 1}

InitSessions ==
    /\ now = 0
    /\ load = 2 /\ users \in UserCounts
    /\ cpuSamples = <<>> /\ userSamples = <<>>
    /\ due = [NothingDue EXCEPT !.user = TRUE]
    /\ NoCalibrator
    /\ AtRest

\* The clock moves on to the next tick of the session monitor's ticker.
SessionAdvance ==
    /\ ticks < MaxSessionTicks
    /\ due = NothingDue
    /\ now' = now + samplingInterval
    /\ ticks' = ticks + 1
    /\ due' = [NothingDue EXCEPT
                   !.user = TickIn(procStart, samplingInterval, now,
                                   now + samplingInterval)]
    /\ res' = NoArg
    /\ UNCHANGED <<mu, pc, locals,
                   signal, pending, events, load, users, running, procStart, cpuSamples,
                   userSamples, cfgFile, cfg, calibSet, state, stateFile,
                   restartReq, dec, run, lastCall, everCalibrated, arg>>

\* userMon.NoUsersLoggedIn(minutes) is called between two samples
SessionCheck ==
    /\ due = NothingDue
    /\ \E minutes \in SessionWindows :
           res' = [op |-> "SessionCheck", minutes |-> minutes, at |-> now,
                   busyAt |-> lastCall.userBusy,
                   result |-> NoUsersLoggedIn(userSamples, now, minutes)]
    /\ UNCHANGED <<mu, pc, locals,
                   signal, pending, now, ticks, events, load, users, running, procStart,
                   cpuSamples, userSamples, due, cfgFile, cfg, calibSet, state,
                   stateFile, restartReq, dec, run, lastCall, everCalibrated, arg>>

NextSessions ==
    \/ SessionAdvance
    \/ UserChange
    \/ UserSample
    \/ SessionCheck

SpecSessions == InitSessions /\ [][NextSessions]_vars

\* C6 (as claimed): when the window holds at least max(1, N div 2) samples,
\* NoUsersLoggedIn(N) is true exactly when every sample of the window has
\* count 0; and once a sample with a count of 1 or more has been recorded
\* the predicate is false on every evaluation until that sample is older
\* than N minutes.
C6_NoUsersIffAllZero ==
    res.op = "SessionCheck" =>
        /\ Cardinality(WindowIndices(userSamples, res.at, res.minutes))
               >= GuardCount(res.minutes)
             => (res.result <=>
                     \A i \in WindowIndices(userSamples, res.at, res.minutes) :
                         userSamples[i].userCount = 0)
        /\ res.busyAt > res.at - res.minutes * Minute => res.result = FALSE

\* ------------------------------------------------------------------------
\* Calibrator.Run as a function of the samples and the lookback (SpecRun)
\* ------------------------------------------------------------------------

MaxRunSamples == 11

RunValues == {0, 5}

\* the lookbacks Run is called with, and one that reaches a few samples only
RunLookbacks == {5 * Minute, InitialLookback, RecalibrationLookback}

RunNow == MaxRunSamples * Minute

\* n samples one minute apart, the last one taken at t, with usages f
MinuteSamples(n, f, t) ==
    [i \in 1..n |-> [timestamp |-> t - (n - i) * Minute, usage |-> f[i]]]

\* the state an earlier process left after a calibration on a baseline of 5%
PriorCalibration ==
    [InitialDone |-> TRUE, LastCalibTime |-> 0 - calibrationCheckInterval,
     StartTime |-> 0 - 3 * calibrationCheckInterval,
     CurrentThreshold |-> NewThreshold(Frac(5, 1)), IdleBaseline |-> Frac(5, 1)]

\* the state file the process finds when it starts: none, or the one of an
\* earlier calibration
RunStateFiles ==
    {NoStateFile, saveState(NoStateFile, PriorCalibration, SaveOk)}

\* a process started in auto mode at time 0, RunNow later
InitRun ==
    /\ now = RunNow
    /\ load = 2 /\ users = 0
    /\ \E n \in 0..MaxRunSamples :
           \E f \in [1..n -> RunValues] :
               cpuSamples = MinuteSamples(n, f, RunNow)
    /\ userSamples = <<>>
    /\ due = NothingDue
    /\ \E sfile \in RunStateFiles :
           LET p == StartProcess(AutoFile, sfile, 0, SaveOk)
           IN  /\ cfgFile = p.cfgFile /\ cfg = p.cfg /\ calibSet = p.calibSet
               /\ state = p.state /\ stateFile = p.stateFile
    /\ AtRest

\* calib.Run(cpuMon.GetSamples(), lookback) is called
ApplyRun ==
    /\ res.op = "none"
    /\ \E lookback \in RunLookbacks, written \in SaveOutcomes :
        \E r \in {Run(state, stateFile, GetSamples(cpuSamples), lookback, now, written)} :
            /\ (written # SaveOk) => r.err = ""
            /\ state' = r.state
            /\ stateFile' = r.file
            /\ cfgFile' = IF r.err = "" THEN writeBannerToConfig(cfgFile, "calibrated")
                          ELSE cfgFile
            /\ everCalibrated' = (everCalibrated \/ r.err = "")
            /\ pending' = IF r.err = "" THEN r.threshold ELSE pending
            /\ res' = [op |-> "Run", lookback |-> lookback,
                       err |-> r.err, threshold |-> r.threshold]
            /\ UNCHANGED <<mu, pc, locals,
                           signal, now, ticks, events, load, users, running, procStart,
                           cpuSamples, userSamples, due, cfg, calibSet, restartReq,
                           dec, run, lastCall, arg>>

NextRun == ApplyRun

SpecRun == InitRun /\ [][NextRun]_vars

\* C8: a run over a buffer with fewer than 10 samples newer than
\* now - lookback returns "insufficient samples", and leaves the Calibration
\* State as it was, in memory and in the state file.
C8_TooFewSamplesChangeNothing ==
    [][(res' # res /\ res'.op = "Run" /\
        Cardinality({i \in 1..Len(cpuSamples) :
                        cpuSamples[i].timestamp > now - res'.lookback}) < 10)
          => /\ res'.err = "insufficient samples"
             /\ state' = state
             /\ stateFile' = stateFile]_vars

\* C8, witness: a calibrated state survived a run that found too few samples
\* within its lookback, in a buffer that holds enough older ones
C8_Witness ==
    /\ res.op = "Run" /\ res.err = "insufficient samples"
    /\ Len(cpuSamples) >= 10
    /\ state.InitialDone /\ stateFile.exists

\* twice the value max(b + 3.0, 5.0) times the denominator of the baseline b
TwiceRaw(b) ==
    IF b.num + 3 * b.den < 5 * b.den THEN 10 * b.den ELSE 2 * (b.num + 3 * b.den)

\* C11: a run that succeeds returns the threshold it stored, that threshold
\* is the whole number nearest to max(idleBaseline + 3.0, 5.0) (a half going
\* up) for the baseline it stored, so it is never below 5, and it is 5 for a
\* baseline of 0.5.
C11_ThresholdIsRoundedFlooredBaseline ==
    (res.op = "Run" /\ res.err = "")
        => LET b == state.IdleBaseline
               T == res.threshold
           IN  /\ state.CurrentThreshold = T
               /\ CurrentThreshold(state) = T
               /\ (2 * T - 1) * b.den <= TwiceRaw(b)
               /\ TwiceRaw(b) < (2 * T + 1) * b.den
               /\ T >= 5
               /\ (b = Frac(1, 2) => T = 5)

\* C11, witness: a run succeeded on a baseline of 0.5 and returned 5
C11_Witness ==
    /\ res.op = "Run" /\ res.err = ""
    /\ state.IdleBaseline = Frac(1, 2)
    /\ res.threshold = 5 /\ state.CurrentThreshold = 5

\* ------------------------------------------------------------------------
\* findIdleBaseline as a function of the samples (SpecBaseline)
\* ------------------------------------------------------------------------

\* Run hands findIdleBaseline minCalibSamples samples or more
MaxBaselineSamples == 10

\* the usages: a level the machine idles at, and at most MaxBaselineSpikes
\* samples that differ from it
MaxBaselineSpikes == 3

BaselineValues == {1, 3, 7}

\* the usage sequences of length n
BaselineUsages(n) ==
    UNION {
        UNION {
            {[i \in 1..n |-> IF i \in P THEN f[i] ELSE level] :
                 f \in [P -> BaselineValues \ {level}]} :
            P \in {Q \in SUBSET (1..n) : Cardinality(Q) <= MaxBaselineSpikes}} :
        level \in BaselineValues}

\* the time between two samples: 10, 6 or 5 samples to a window
BaselineGaps == {3 * Minute, 5 * Minute, 6 * Minute}

\* a process started in auto mode at time 0, with the samples it has taken
\* since at a steady pace
InitBaseline ==
    /\ \E n \in minCalibSamples..MaxBaselineSamples, gap \in BaselineGaps :
           /\ now = (n - 1) * gap
           /\ \E f \in BaselineUsages(n) :
                  cpuSamples = [i \in 1..n |->
                                   [timestamp |-> (i - 1) * gap, usage |-> f[i]]]
    /\ load = 2 /\ users = 0
    /\ userSamples = <<>>
    /\ due = NothingDue
    /\ LET p == StartProcess(AutoFile, NoStateFile, 0, SaveOk)
       IN  /\ cfgFile = p.cfgFile /\ cfg = p.cfg /\ calibSet = p.calibSet
           /\ state = p.state /\ stateFile = p.stateFile
    /\ AtRest

\* findIdleBaseline(window) is called on the samples of the buffer
ApplyFindIdleBaseline ==
    /\ res.op = "none"
    /\ \E r \in {findIdleBaseline(GetSamples(cpuSamples))} :
           res' = [op |-> "findIdleBaseline", ok |-> r.ok,
                   baseline |-> r.baseline, maxStddev |-> r.maxStddev]
    /\ UNCHANGED <<mu, pc, locals,
                   signal, pending, now, ticks, events, load, users, running, procStart,
                   cpuSamples, userSamples, due, cfgFile, cfg, calibSet, state,
                   stateFile, restartReq, dec, run, lastCall, everCalibrated, arg>>

NextBaseline == ApplyFindIdleBaseline

SpecBaseline == InitBaseline /\ [][NextBaseline]_vars

\* the window that starts at sample i: the positions j >= i of the samples
\* taken less than 30 minutes after sample i
WindowAt(i) ==
    {j \in i..Len(cpuSamples) :
        cpuSamples[j].timestamp < cpuSamples[i].timestamp + 30 * Minute}

RECURSIVE UsageSum(_)
UsageSum(J) ==
    IF J = {} THEN 0
    ELSE LET j == CHOOSE k \in J : TRUE
         IN  cpuSamples[j].usage + UsageSum(J \ {j})

RECURSIVE UsageSquareSum(_)
UsageSquareSum(J) ==
    IF J = {} THEN 0
    ELSE LET j == CHOOSE k \in J : TRUE
         IN  cpuSamples[j].usage * cpuSamples[j].usage + UsageSquareSum(J \ {j})

\* the window at i has 5 samples or more and a population standard
\* deviation below bound: n * sum(v^2) - sum(v)^2 < bound^2 * n^2
Qualifies(i, bound) ==
    LET n == Cardinality(WindowAt(i))
    IN  /\ n >= 5
        /\ n * UsageSquareSum(WindowAt(i)) - UsageSum(WindowAt(i)) * UsageSum(WindowAt(i))
               < bound * bound * n * n

Qualifying(bound) ==
    {i \in 1..Len(cpuSamples) : Qualifies(i, bound)}

\* the mean of the window at i is x, is below x
MeanIs(i, x) ==
    UsageSum(WindowAt(i)) * x.den = x.num * Cardinality(WindowAt(i))

MeanBelow(i, x) ==
    UsageSum(WindowAt(i)) * x.den < x.num * Cardinality(WindowAt(i))

\* C9: the baseline is the minimum, over the window starts i whose window
\* (the samples j >= i taken less than 30 minutes after sample i) has 5
\* samples or more and a population standard deviation below the accepted
\* bound, of the mean of that window.
C9_BaselineIsMinimalQualifyingMean ==
    (res.op = "findIdleBaseline" /\ res.ok) =>
        /\ \E i \in Qualifying(res.maxStddev) : MeanIs(i, res.baseline)
        /\ \A i \in Qualifying(res.maxStddev) : ~MeanBelow(i, res.baseline)

\* C9, witness: two windows qualify, the later one with the lower mean, and
\* a window of fewer than 5 samples and one too unsteady were passed over
C9_Witness ==
    /\ res.op = "findIdleBaseline" /\ res.ok
    /\ \E i, k \in Qualifying(res.maxStddev) :
           i < k /\ MeanIs(k, res.baseline) /\ ~MeanIs(i, res.baseline)
    /\ \E i \in 1..Len(cpuSamples) :
           Cardinality(WindowAt(i)) >= 5 /\ ~Qualifies(i, res.maxStddev)

\* C10: the accepted bound is 1.0 whenever a window of 5 samples or more has
\* a standard deviation below 1.0, and the baseline is then the least mean
\* of those windows, whatever the means of the windows that only pass 2.0;
\* the bound is 2.0 when no window passes 1.0 and one passes 2.0; when none
\* passes 2.0 the search fails.
C10_TightBoundFirst ==
    res.op = "findIdleBaseline" =>
        /\ Qualifying(1) # {} =>
               /\ res.ok /\ res.maxStddev = 1
               /\ \A i \in Qualifying(1) : ~MeanBelow(i, res.baseline)
               /\ \E i \in Qualifying(1) : MeanIs(i, res.baseline)
        /\ (Qualifying(1) = {} /\ Qualifying(2) # {}) =>
               res.ok /\ res.maxStddev = 2
        /\ Qualifying(2) = {} => ~res.ok

\* C10, witness: the bound is 1.0 although a window that only passes 2.0 has
\* a mean below the baseline
C10_Witness ==
    /\ res.op = "findIdleBaseline" /\ res.ok /\ res.maxStddev = 1
    /\ \E i \in Qualifying(2) \ Qualifying(1) : MeanBelow(i, res.baseline)

\* ------------------------------------------------------------------------
\* The daemon over hours: calibration checks, restarts, reloads (SpecLife)
\* ------------------------------------------------------------------------

\* number of hours of one behaviour
MaxHours == 3

\* the successful CPU reads of one hour: none (every read failed), or the
\* last minCalibSamples reads of the hour, at one level
HourReadings ==
    {<<>>} \cup {[i \in 1..minCalibSamples |-> l] : l \in CpuLoads}

\* takeSample on the last Len(f) ticks of the sampling ticker up to t, with
\* the readings f
RECURSIVE CpuTakeSamples(_, _, _)
CpuTakeSamples(samples, t, f) ==
    IF f = <<>> THEN samples
    ELSE CpuTakeSample(
             CpuTakeSamples(samples, t - samplingInterval, SubSeq(f, 1, Len(f) - 1)),
             t, f[Len(f)])

\* the state an earlier process left that started learning three hours ago
\* and never calibrated
PriorLearning ==
    [ZeroState EXCEPT !.StartTime = 0 - 3 * calibrationCheckInterval]

\* the state file the process finds when it starts: none, the one of an
\* earlier process still learning, or the one of an earlier calibration
LifeStateFiles ==
    RunStateFiles \cup {saveState(NoStateFile, PriorLearning, SaveOk)}

\* a process started in auto mode at time 0
InitLife ==
    /\ now = 0 /\ ticks = 0 /\ events = 0
    /\ load = 2 /\ users = 0
    /\ \E sfile \in LifeStateFiles :
           LET p == StartProcess(AutoFile, sfile, 0, SaveOk)
           IN  /\ cfgFile = p.cfgFile /\ cfg = p.cfg /\ calibSet = p.calibSet
               /\ state = p.state /\ stateFile = p.stateFile
    /\ running = TRUE
    /\ procStart = 0
    /\ cpuSamples = <<>>
    /\ userSamples = <<>>
    /\ due = StartDue
    /\ restartReq = FALSE
    /\ signal = "none"
    /\ dec = NoDecision
    /\ run = NoRun
    /\ lastCall = NoCalls
    /\ everCalibrated = FALSE
    /\ pending = NoPending
    /\ arg = NoArg
    /\ res = NoArg
    /\ BetweenHandlers

\* An hour passes.  The sampling tasks served their tickers meanwhile: the
\* CPU reads that succeeded are in the buffer, and so is the session read of
\* the hour's last tick; the evaluation and the calibration check of the
\* hour's end are waiting.
HourPasses ==
    \E f \in HourReadings :
        /\ ticks < MaxHours
        /\ running => (due = NothingDue /\ ~restartReq /\ signal # "raised")
        /\ ~running => f = <<>>
        /\ now' = now + calibrationCheckInterval
        /\ ticks' = ticks + 1
        /\ load' = IF f = <<>> THEN load ELSE f[Len(f)]
        /\ cpuSamples' = CpuTakeSamples(cpuSamples, now + calibrationCheckInterval, f)
        /\ userSamples' = IF running
                          THEN UserTakeSample(userSamples,
                                              now + calibrationCheckInterval, users)
                          ELSE userSamples
        /\ lastCall' = IF running
                       THEN [cpu |-> now + calibrationCheckInterval,
                             cpuOk |-> IF f = <<>> THEN lastCall.cpuOk
                                       ELSE now + calibrationCheckInterval,
                             user |-> now + calibrationCheckInterval,
                             userOk |-> now + calibrationCheckInterval,
                             userBusy |-> IF users > 0
                                          THEN now + calibrationCheckInterval
                                          ELSE lastCall.userBusy]
                       ELSE lastCall
        /\ due' = IF running
                  THEN [cpu |-> FALSE, user |-> FALSE,
                        eval |-> TickIn(procStart, evaluationInterval, now,
                                        now + calibrationCheckInterval),
                        calib |-> calibSet /\ TickIn(procStart, calibrationCheckInterval,
                                                     now, now + calibrationCheckInterval)]
                  ELSE due
        /\ UNCHANGED <<mu, pc, locals,
                       signal, pending, events, users, running, procStart, cfgFile, cfg, calibSet,
                       state, stateFile, restartReq, dec, run, everCalibrated,
                       arg, res>>

NextLife ==
    \/ HourPasses
    \/ EditConfig
    \/ CpuSample
    \/ UserSample
    \/ DecisionTick
    \/ CalibrationTick
    \/ Restart
    \/ Signal
    \/ Stop

SpecLife == InitLife /\ [][NextLife]_vars

\* the step is a calibration check whose run succeeded
RunSucceeds ==
    /\ due.calib /\ ~due'.calib
    /\ run'.kind \in {"initial", "weekly"} /\ run'.err = "" /\ run'.at = now

\* C12: a Calibrator constructed without a state file is learning, whatever
\* becomes of its first save; and a process whose Calibrator is learning has
\* a learning Calibrator after every step (the passage of time, a failed
\* run, a reload, a restart) except the step of a successful run.
C12_LearningUntilRunSucceeds ==
    /\ \A written \in SaveOutcomes :
           IsInLearningPhase(New(NoStateFile, 0, written).state)
    /\ [][(calibSet /\ IsInLearningPhase(state) /\ ~IsInLearningPhase(state'))
              => RunSucceeds]_vars

\* C12, witness: a process that found the record of three hours of learning
\* went through two hours without a CPU reading, so two failed runs, and
\* left the learning phase with the run at the end of the third hour
C12_Witness ==
    /\ calibSet /\ procStart = 0 /\ state.StartTime < 0
    /\ now = 3 * calibrationCheckInterval
    /\ Len(cpuSamples) = minCalibSamples
    /\ run.kind = "initial" /\ run.err = "" /\ run.at = now
    /\ ~IsInLearningPhase(state)

\* the step starts a new process in place of one that had made a run
RestartAfterRun == run # NoRun /\ run' = NoRun

\* the last calibration check ran, succeeded, and its save wrote the file
SavedRun ==
    /\ calibSet /\ run.kind \in {"initial", "weekly"} /\ run.err = ""
    /\ stateFile.exists /\ stateFile.lines = StateLines(state)

\* C13: when the process is restarted after a successful run whose save
\* succeeded, the Calibrator the new process constructs from the state file
\* is not learning and has the threshold the run returned.
C13_SavedRunSurvivesRestart ==
    [][(RestartAfterRun /\ SavedRun /\ calibSet')
          => /\ ~IsInLearningPhase(state')
             /\ CurrentThreshold(state') = run.threshold]_vars

\* C13, witness: a process started right after a calibration that saved a
\* threshold of 33 in its file, and its Calibrator has loaded it
C13_Witness ==
    /\ calibSet /\ procStart = now /\ now > 0 /\ run = NoRun
    /\ state.LastCalibTime = now
    /\ stateFile.lines = StateLines(state)
    /\ ~IsInLearningPhase(state) /\ CurrentThreshold(state) = 33

\* C14 (as claimed): from one step of the daemon to the next, restarts and
\* failed saves included, the Calibrator's initialDone never goes from true
\* to false, and it goes from false to true only when no calibration has
\* succeeded before.
C14_InitialDoneSetOnce ==
    [][(calibSet /\ calibSet')
          => /\ state.InitialDone => state'.InitialDone
             /\ (~state.InitialDone /\ state'.InitialDone) => ~everCalibrated]_vars

\* ------------------------------------------------------------------------
\* Claims about the threshold and the modes of the decision loop
\* ------------------------------------------------------------------------

\* the step is a decision tick that went on to evaluate the predicates
EvaluatedTick == due.eval /\ ~due'.eval /\ dec'.kind = "eval" /\ dec'.at = now

\* C15 (as claimed): an evaluated decision tick hands the CPU predicate the
\* Calibrator's currentThreshold when the tick's configuration is in auto
\* mode, and the cpu_threshold of the configuration (the file's, or the last
\* one loaded when the reload fails) in manual mode.
C15_ThresholdFollowsMode ==
    [][EvaluatedTick
          => IF dec'.auto
             THEN calibSet /\ dec'.threshold = CurrentThreshold(state)
             ELSE dec'.threshold = IF Load(cfgFile).err THEN cfg.CPUThreshold
                                   ELSE cfgFile.cpu_threshold.val]_vars

\* C16 (as claimed): in a step through which the effective configuration of
\* the running process is in manual mode, no calibration run is made and the
\* Calibration State stays as it is, in memory and in the state file.
C16_ManualModeLeavesCalibrationAlone ==
    [][(running /\ ~cfg.AutoMode /\ ~cfg'.AutoMode)
          => /\ ~(due.calib /\ ~due'.calib /\ run'.kind \in {"initial", "weekly"})
             /\ (calibSet /\ calibSet') => state' = state
             /\ stateFile' = stateFile]_vars

\* the step is a tick of the decision loop
TickTaken == dec' # dec /\ dec'.kind # "none"

\* C17: a tick of the decision loop calls the sink at most once and leaves
\* the loop running, whatever the sink returns; and the tick that follows a
\* tick with a sink call, when it evaluates, calls the sink again exactly
\* when both predicates are true.
C17_SinkCallDoesNotEndTheLoop ==
    [][TickTaken
          => /\ running' /\ signal' = signal
             /\ dec'.sink \in {0, 1}
             /\ dec'.sinkErr # "" => dec'.sink = 1
             /\ (dec.sink = 1 /\ dec'.kind = "eval")
                  => dec'.sink =
                       IF /\ IsBelowThreshold(cpuSamples, now, cfg'.CPUThreshold,
                                              cfg'.CPUCheckMinutes)
                          /\ NoUsersLoggedIn(userSamples, now, cfg'.UserCheckMinutes)
                       THEN 1 ELSE 0]_vars

\* C17, witness: the sink returned an error on one tick, and the next tick
\* was taken and called the sink again
C17_Witness ==
    /\ running /\ dec.kind = "eval"
    /\ dec.prevSink = 1 /\ dec.prevSinkErr # ""
    /\ dec.sink = 1 /\ dec.sinkErr = ""

\* ------------------------------------------------------------------------
\* The stop signal
\* ------------------------------------------------------------------------

\* The daemon with the scheduling Go gives main: a select with the signal
\* waiting in sigCh is not passed over for ever (each tick takes the ticker
\* channel's one value, and the next one is a minute away).
FairSpec == Spec /\ WF_vars(Stop)

\* C18: once the signal is raised, the process that got it ends: main
\* observes the signal, and from then on the decision loop, the two
\* sampling tasks and the calibration-check task are gone (no tick is
\* waiting to be served); and after main has observed it, no decision tick
\* is taken, no sample is added and no calibration check is made, until a
\* new process is started.
C18_SignalStopsEveryTask ==
    /\ [](signal = "observed" => (~running /\ due = NothingDue))
    /\ [][(signal = "observed" /\ signal' = "observed")
             => /\ dec' = dec /\ run' = run
                /\ cpuSamples' = cpuSamples /\ userSamples' = userSamples
                /\ state' = state /\ stateFile' = stateFile]_vars
    /\ (signal = "raised") ~> (signal # "raised")

\* C18, witness: the loop took a tick and called the sink, the signal came
\* at that time, main observed it and the process ended with its buffers
\* filled
C18_Witness ==
    /\ signal = "observed" /\ ~running
    /\ dec.kind = "eval" /\ dec.sink = 1 /\ dec.at = now
    /\ Len(cpuSamples) > 0 /\ Len(userSamples) > 0

\* ------------------------------------------------------------------------
\* The threshold after a calibration
\* ------------------------------------------------------------------------

\* C19 (as claimed): the first tick of the decision loop that begins in auto
\* mode after a successful calibration run, in the same process or in the
\* one started by the restart, evaluates the CPU predicate with the
\* threshold that run returned.
C19_NextTickUsesNewThreshold ==
    [][(TickTaken /\ dec'.auto /\ pending # NoPending)
          => (dec'.kind = "eval" /\ dec'.threshold = pending)]_vars

\* ------------------------------------------------------------------------
\* A save of the Calibration State that stops part-way
\* ------------------------------------------------------------------------

\* C20 (as claimed): whatever a save leaves in the state file, all of its
\* lines or, when the process dies or the write fails part-way, the lines
\* written until then, a Calibrator loading the file afterwards has the
\* initialDone the file gave before the save or the one being saved.
C20_InterruptedSaveKeepsInitialDone ==
    [][stateFile' # stateFile
          => loadState(stateFile').InitialDone
                 \in {loadState(stateFile).InitialDone, state'.InitialDone}]_vars

\* ------------------------------------------------------------------------
\* Failures: sensor reads, calibration runs, reloads, saves
\* ------------------------------------------------------------------------

\* the step is a takeSample of the CPU monitor whose sensor read failed
CpuReadFails ==
    /\ running /\ running' /\ due.cpu /\ ~due'.cpu /\ due'.user = due.user
    /\ lastCall'.cpu = now /\ lastCall'.cpuOk = lastCall.cpuOk

\* the step is a takeSample of the session monitor whose sensor read failed
UserReadFails ==
    /\ running /\ running' /\ due.user /\ ~due'.user /\ due'.cpu = due.cpu
    /\ lastCall'.user = now /\ lastCall'.userOk = lastCall.userOk

\* C21: a takeSample whose sensor read fails leaves both buffers exactly as
\* they were and its task running: the ticks still waiting keep waiting and
\* the process goes on.
C21_FailedReadChangesNoBuffer ==
    [][(CpuReadFails \/ UserReadFails)
          => /\ cpuSamples' = cpuSamples
             /\ userSamples' = userSamples
             /\ signal' = signal]_vars

\* C21, witness: the CPU read of the tick at 30 s failed, the buffer kept
\* the sample of the start, and the task took the next tick's sample
C21_Witness ==
    /\ running /\ procStart = 0 /\ ticks = 2 /\ now = 2 * samplingInterval
    /\ lastCall.cpuOk = now
    /\ Len(cpuSamples) = 2
    /\ cpuSamples[1].timestamp = 0 /\ cpuSamples[2].timestamp = now

\* ------------------------------------------------------------------------
\* Calibration runs that fail and are tried again (SpecRetry)
\* ------------------------------------------------------------------------

\* the successful CPU reads at the end of a busy hour: the load swings
\* between the two levels
NoisyHour ==
    [i \in 1..minCalibSamples |-> IF i % 2 = 0 THEN 30 ELSE 2]

\* the successful CPU reads at the end of a quiet hour
QuietHour == [i \in 1..minCalibSamples |-> 2]

\* An hour passes in which every read succeeded: a busy one, in which the
\* load was never steady, or a quiet one.
LoadedHourPasses ==
    \E f \in {NoisyHour, QuietHour} :
        /\ ticks < MaxHours
        /\ running /\ due = NothingDue /\ ~restartReq /\ signal # "raised"
        /\ now' = now + calibrationCheckInterval
        /\ ticks' = ticks + 1
        /\ load' = f[minCalibSamples]
        /\ cpuSamples' = CpuTakeSamples(cpuSamples, now + calibrationCheckInterval, f)
        /\ userSamples' = UserTakeSample(userSamples,
                                         now + calibrationCheckInterval, users)
        /\ lastCall' = [cpu |-> now + calibrationCheckInterval,
                        cpuOk |-> now + calibrationCheckInterval,
                        user |-> now + calibrationCheckInterval,
                        userOk |-> now + calibrationCheckInterval,
                        userBusy |-> IF users > 0
                                     THEN now + calibrationCheckInterval
                                     ELSE lastCall.userBusy]
        /\ due' = [cpu |-> FALSE, user |-> FALSE,
                   eval |-> TickIn(procStart, evaluationInterval, now,
                                   now + calibrationCheckInterval),
                   calib |-> calibSet /\ TickIn(procStart, calibrationCheckInterval,
                                                now, now + calibrationCheckInterval)]
        /\ UNCHANGED <<mu, pc, locals,
                       signal, pending, events, users, running, procStart,
                       cfgFile, cfg, calibSet, state, stateFile, restartReq,
                       dec, run, everCalibrated, arg, res>>

NextRetry ==
    \/ LoadedHourPasses
    \/ CpuSample
    \/ UserSample
    \/ DecisionTick
    \/ CalibrationTick
    \/ Restart

SpecRetry == InitLife /\ [][NextRetry]_vars

\* the step is a calibration run that fails
RunFails ==
    /\ run' # run /\ run'.kind \in {"initial", "weekly"} /\ run'.err # ""

\* C22: a calibration run that finds no stable window returns an error and
\* changes nothing: the Calibration State in memory and on disk stays as it
\* was (a calibrated machine keeps its threshold and calibration time, a
\* learning machine stays learning), no banner is written and no restart is
\* asked for.
C22_FailedRunChangesNothing ==
    [][(RunFails /\ run'.err = "no stable idle windows found")
          => /\ run'.threshold = 0
             /\ state' = state
             /\ stateFile' = stateFile
             /\ cfgFile' = cfgFile
             /\ restartReq' = restartReq
             /\ pending' = pending
             /\ IsInLearningPhase(state') = IsInLearningPhase(state)]_vars

\* C22, witness: a recalibration of a calibrated machine has just failed for
\* want of a stable window, and the machine still has its earlier threshold
C22_Witness ==
    /\ run.kind = "weekly" /\ run.at = now
    /\ run.err = "no stable idle windows found"
    /\ state = PriorCalibration
    /\ CurrentThreshold(state) = NewThreshold(Frac(5, 1))
    /\ ~restartReq

\* runCalibrationLoop's select receives the tick that waits in ticker.C.
\* CalibrationTick is enabled exactly when this receive is, and each of its
\* steps takes the tick; weak fairness of the receive is therefore weak
\* fairness of CalibrationTick, stated on an action whose enabling condition
\* is a plain state predicate.
ReceivesCalibrationTick ==
    /\ running /\ calibSet /\ due.calib
    /\ due' = [due EXCEPT !.calib = FALSE]
    /\ UNCHANGED <<mu, pc, locals,
                   signal, pending, now, ticks, events, load, users, running,
                   procStart, cpuSamples, userSamples, cfgFile, cfg, calibSet,
                   state, stateFile, restartReq, dec, run, lastCall,
                   everCalibrated, arg, res>>

\* runCalibrationLoop serves a tick of its ticker that is waiting
FairRetry == SpecRetry /\ WF_vars(ReceivesCalibrationTick)

\* the lookback of the run the Calibrator would make now
DueLookback == IF state.InitialDone THEN RecalibrationLookback ELSE InitialLookback

\* the buffer holds at least minCalibSamples samples within the lookback, and
\* a stable window among them
StableInLookback ==
    LET cutoff == now - DueLookback
        window == SelectSeq(GetSamples(cpuSamples),
                            LAMBDA s : After(s.Timestamp, cutoff))
    IN  Len(window) >= minCalibSamples /\ findIdleBaseline(window).ok

\* the latest calibration-check tick of the running process was a run that
\* failed / that succeeded
LastRunFailed == running /\ run.kind \in {"initial", "weekly"} /\ run.err # ""
LastRunSucceeded == run.kind \in {"initial", "weekly"} /\ run.err = ""

\* C23: after a failed run the condition that made it due still holds, and
\* the next calibration-check tick of the process runs the calibration
\* again; if runCalibrationLoop serves its ticks, a buffer that has come to
\* hold enough in-lookback samples with a stable window, and keeps holding
\* them, leads to a run that succeeds.
C23_FailedRunIsTriedAgain ==
    /\ [][RunFails => (ShouldRunInitial(state', now')
                         \/ ShouldRunWeekly(state', now'))]_vars
    /\ [][(LastRunFailed /\ run' # run /\ run'.kind # "none")
             => run'.kind \in {"initial", "weekly"}]_vars
    /\ (LastRunFailed /\ StableInLookback)
          ~> (LastRunSucceeded \/ ~StableInLookback)

\* C23, witness: the run of the hour before failed for want of a stable
\* window and the run of this hour succeeded
C23_Witness ==
    /\ LastRunSucceeded /\ run.at = now /\ procStart = 0
    /\ now = 2 * calibrationCheckInterval
    /\ \E i \in 1..Len(cpuSamples) :
           /\ cpuSamples[i].timestamp = calibrationCheckInterval
           /\ cpuSamples[i].usage = 30
    /\ \E i \in 1..Len(cpuSamples) :
           /\ cpuSamples[i].timestamp = calibrationCheckInterval - samplingInterval
           /\ cpuSamples[i].usage = 2

\* the step is a calibration-check tick whose initial calibration succeeds
InitialRunSucceeds ==
    /\ run' # run /\ run'.kind = "initial" /\ run'.err = ""

\* C24: the initial calibration and the recalibration are never due
\* together, and the tick that completes the initial calibration makes that
\* one run only: the state it leaves is the result of the initial run on
\* the initial lookback, and the recalibration is not due after it.
C24_OneRunPerTick ==
    /\ [](~(ShouldRunInitial(state, now) /\ ShouldRunWeekly(state, now)))
    /\ [][InitialRunSucceeds
             => /\ ShouldRunInitial(state, now) /\ ~ShouldRunWeekly(state, now)
                /\ ~ShouldRunInitial(state', now') /\ ~ShouldRunWeekly(state', now')
                /\ state' = Run(state, stateFile, GetSamples(cpuSamples),
                                InitialLookback, now, SaveOk).state
                /\ state'.LastCalibTime = now]_vars

\* C24, witness: the tick of this hour completed the initial calibration,
\* and neither run is due after it
C24_Witness ==
    /\ running /\ run.kind = "initial" /\ run.err = "" /\ run.at = now
    /\ state.InitialDone /\ state.LastCalibTime = now
    /\ ~ShouldRunInitial(state, now) /\ ~ShouldRunWeekly(state, now)
    /\ ~due.calib

\* ------------------------------------------------------------------------
\* Frame of the calibrated values
\* ------------------------------------------------------------------------

\* C25: currentThreshold and idleBaseline of the Calibration State change
\* only in a step that is a successful calibration run, which replaces both
\* by the results of that run; every other step between two states with a
\* Calibrator leaves them as they were.
C25_CalibratedValuesChangeOnlyInSuccessfulRun ==
    [][(/\ calibSet /\ calibSet'
        /\ \/ state'.CurrentThreshold # state.CurrentThreshold
           \/ state'.IdleBaseline # state.IdleBaseline)
          => /\ run' # run /\ run'.kind \in {"initial", "weekly"} /\ run'.err = ""
             /\ state'.CurrentThreshold = run'.threshold
             /\ state'.CurrentThreshold = NewThreshold(state'.IdleBaseline)]_vars

\* ------------------------------------------------------------------------
\* The decision tick step by step, next to runCalibrationLoop (SpecTick)
\* ------------------------------------------------------------------------

\* main is between two ticks of its evaluation loop
BetweenTicks == IF arg.op = "tick" THEN arg.pc = "done" ELSE TRUE

\* main takes a tick: it reloads the configuration and tests the learning
\* phase; a tick that skips the evaluation ends here.
TickBegins ==
    LET c == ReloadConfig(cfg, cfgFile)
    IN  /\ running /\ due.eval /\ BetweenTicks
        /\ cfg' = c
        /\ IF SkipsEvaluation(c, calibSet, state)
           THEN /\ due' = [due EXCEPT !.eval = FALSE]
                /\ dec' = [NoDecision EXCEPT !.kind = "skip", !.at = now,
                                             !.reloadErr = Load(cfgFile).err,
                                             !.auto = c.AutoMode,
                                             !.prevSink = dec.sink,
                                             !.prevSinkErr = dec.sinkErr]
                /\ arg' = NoArg
           ELSE /\ due' = due
                /\ dec' = dec
                /\ arg' = [op |-> "tick", pc |-> "threshold",
                           reloadErr |-> Load(cfgFile).err,
                           threshold |-> 0, cpuMinutes |-> 0, userMinutes |-> 0]
        /\ res' = NoArg
        /\ UNCHANGED <<mu, pc, locals,
                       signal, pending, now, ticks, events, load, users, running,
                       procStart, cpuSamples, userSamples, cfgFile, calibSet,
                       state, stateFile, restartReq, run, lastCall,
                       everCalibrated>>

\* main resolves the threshold of the tick: in auto mode the Calibrator's
\* current threshold is stored in the tick's configuration.
TickResolves ==
    LET eff == EffectiveConfig(cfg, calibSet, state)
    IN  /\ running /\ arg.op = "tick" /\ arg.pc = "threshold"
        /\ cfg' = eff
        /\ arg' = [arg EXCEPT !.pc = "cpu",
                              !.threshold = eff.CPUThreshold,
                              !.cpuMinutes = eff.CPUCheckMinutes,
                              !.userMinutes = eff.UserCheckMinutes]
        /\ pending' = IF cfg.AutoMode THEN NoPending ELSE pending
        /\ UNCHANGED <<mu, pc, locals,
                       signal, now, ticks, events, load, users, running,
                       procStart, cpuSamples, userSamples, due, cfgFile,
                       calibSet, state, stateFile, restartReq, dec, run,
                       lastCall, everCalibrated, res>>

\* an evaluation that asks the Calibrator for the threshold again
TickEvaluatesCpu_AsksCalibrator ==
    LET threshold == EffectiveConfig(cfg, calibSet, state).CPUThreshold
    IN  /\ running /\ arg.op = "tick" /\ arg.pc = "cpu"
        /\ arg' = [arg EXCEPT !.pc = "users"]
        /\ res' = [op |-> "tick", threshold |-> threshold,
                   cpuMinutes |-> cfg.CPUCheckMinutes,
                   cpuBelow |-> IsBelowThreshold(cpuSamples, now, threshold,
                                                 cfg.CPUCheckMinutes)]
        /\ UNCHANGED <<mu, pc, locals,
                       signal, pending, now, ticks, events, load, users, running,
                       procStart, cpuSamples, userSamples, due, cfgFile, cfg,
                       calibSet, state, stateFile, restartReq, dec, run,
                       lastCall, everCalibrated>>

\* evaluateShutdownCondition evaluates the CPU predicate with the tick's
\* configuration.
TickEvaluatesCpu ==
    /\ running /\ arg.op = "tick" /\ arg.pc = "cpu"
    /\ arg' = [arg EXCEPT !.pc = "users"]
    /\ res' = [op |-> "tick", threshold |-> cfg.CPUThreshold,
               cpuMinutes |-> cfg.CPUCheckMinutes,
               cpuBelow |-> IsBelowThreshold(cpuSamples, now, cfg.CPUThreshold,
                                             cfg.CPUCheckMinutes)]
    /\ UNCHANGED <<mu, pc, locals,
                   signal, pending, now, ticks, events, load, users, running,
                   procStart, cpuSamples, userSamples, due, cfgFile, cfg,
                   calibSet, state, stateFile, restartReq, dec, run,
                   lastCall, everCalibrated>>

\* evaluateShutdownCondition evaluates the session predicate with the tick's
\* configuration and calls the sink when both predicates are true; the tick
\* is over.
TickEvaluatesUsers ==
    LET noUsers == NoUsersLoggedIn(userSamples, now, cfg.UserCheckMinutes)
        sink == IF res.cpuBelow /\ noUsers THEN 1 ELSE 0
    IN  /\ running /\ arg.op = "tick" /\ arg.pc = "users"
        /\ \E cmdFails \in BOOLEAN :
            /\ cmdFails => sink = 1
            /\ events + Cost(cmdFails) <= MaxEvents
            /\ events' = events + Cost(cmdFails)
            /\ dec' = [kind |-> "eval", at |-> now,
                       reloadErr |-> arg.reloadErr, auto |-> cfg.AutoMode,
                       threshold |-> res.threshold,
                       cpuMinutes |-> res.cpuMinutes,
                       userMinutes |-> cfg.UserCheckMinutes,
                       cpuBelow |-> res.cpuBelow, noUsers |-> noUsers,
                       sink |-> sink,
                       sinkErr |-> IF sink = 1 THEN Shutdown(cmdFails) ELSE "",
                       prevSink |-> dec.sink, prevSinkErr |-> dec.sinkErr]
        /\ due' = [due EXCEPT !.eval = FALSE]
        /\ arg' = [arg EXCEPT !.pc = "done"]
        /\ UNCHANGED <<mu, pc, locals,
                       signal, pending, now, ticks, load, users, running,
                       procStart, cpuSamples, userSamples, cfgFile, cfg,
                       calibSet, state, stateFile, restartReq, run, lastCall,
                       everCalibrated, res>>

NextTick ==
    \/ LoadedHourPasses
    \/ EditConfig
    \/ CpuSample
    \/ UserSample
    \/ CalibrationTick
    \/ TickBegins
    \/ TickResolves
    \/ TickEvaluatesCpu
    \/ TickEvaluatesUsers

SpecTick == InitLife /\ [][NextTick]_vars

\* C26: the threshold and the two window lengths a decision tick evaluates
\* its predicates with are the ones it resolved at its start, whatever
\* runCalibrationLoop and the editors of config.ini did meanwhile.
C26_TickUsesWhatItResolved ==
    /\ (arg.op = "tick" /\ arg.pc \in {"users", "done"})
          => /\ res.threshold = arg.threshold
             /\ res.cpuMinutes = arg.cpuMinutes
    /\ (arg.op = "tick" /\ arg.pc = "done")
          => /\ dec.kind = "eval"
             /\ dec.threshold = arg.threshold
             /\ dec.cpuMinutes = arg.cpuMinutes
             /\ dec.userMinutes = arg.userMinutes

\* C26, witness: a tick has resolved its threshold and evaluated the CPU
\* predicate with it, its session predicate is still to be evaluated, and a
\* recalibration that completed since the tick resolved the threshold has
\* left the Calibrator with another one
C26_Witness ==
    /\ arg.op = "tick" /\ arg.pc = "users" /\ cfg.AutoMode /\ calibSet
    /\ run.kind = "weekly" /\ run.err = "" /\ run.at = now
    /\ CurrentThreshold(state) # arg.threshold
    /\ res.threshold = arg.threshold

\* ------------------------------------------------------------------------
\* A reload that fails
\* ------------------------------------------------------------------------

\* the window lengths, the mode and the configured threshold of a Config
Settings(c) ==
    <<c.CPUCheckMinutes, c.UserCheckMinutes, c.AutoMode,
      IF c.AutoMode THEN DefaultCPUThreshold ELSE c.CPUThreshold>>

\* the step starts a process
ProcessStarts ==
    /\ dec' = NoDecision /\ run' = NoRun /\ lastCall' = NoCalls
    /\ cpuSamples' = <<>> /\ userSamples' = <<>>

\* C27: main's configuration holds the settings (window lengths, mode,
\* configured threshold) of the last successful load: a tick whose reload
\* succeeds takes them from config.ini, nothing else in a running process
\* changes them, and a tick whose reload fails keeps them, evaluates with
\* them if it evaluates, and leaves the loop running, the next tick waiting
\* for the ticker.
C27_FailedReloadKeepsLastConfig ==
    /\ [][(TickTaken /\ ~Load(cfgFile).err)
             => Settings(cfg') = Settings(Load(cfgFile).cfg)]_vars
    /\ [][Settings(cfg') # Settings(cfg)
             => \/ TickTaken /\ ~Load(cfgFile).err
                \/ ProcessStarts]_vars
    /\ [][(TickTaken /\ Load(cfgFile).err)
             => /\ dec'.reloadErr
                /\ Settings(cfg') = Settings(cfg)
                /\ dec'.auto = cfg.AutoMode
                /\ dec'.kind \in {"skip", "eval"}
                /\ dec'.kind = "eval"
                      => /\ dec'.cpuMinutes = cfg.CPUCheckMinutes
                         /\ dec'.userMinutes = cfg.UserCheckMinutes
                         /\ ~cfg.AutoMode => dec'.threshold = cfg.CPUThreshold
                /\ running' /\ signal' = signal /\ ~due'.eval]_vars

\* C27, witness: config.ini was made unreadable after a process had loaded
\* its manual settings; the tick of this minute, the third or a later one of
\* the process, found the file unreadable and evaluated with those settings,
\* and the monitors keep sampling
C27_Witness ==
    /\ running /\ Load(cfgFile).err
    /\ dec.kind = "eval" /\ dec.reloadErr /\ dec.at = now
    /\ now >= procStart + 3 * evaluationInterval
    /\ cpuSamples # <<>> /\ cpuSamples[1].timestamp = procStart
    /\ lastCall.cpuOk = now
    /\ ~dec.auto /\ dec.threshold = DefaultCPUThreshold
    /\ dec.cpuMinutes = 2 /\ dec.userMinutes = 2

\* ------------------------------------------------------------------------
\* A successful run whose save fails
\* ------------------------------------------------------------------------

\* the latest calibration check of the process ran and succeeded, and the
\* state file does not hold the state of that run
UnsavedRun ==
    /\ calibSet /\ run.kind \in {"initial", "weekly"} /\ run.err = ""
    /\ ~(stateFile.exists /\ stateFile.lines = StateLines(state))

\* C28: a run that succeeds although its save fails returns the new
\* threshold and leaves the Calibrator calibrated with it in memory, and
\* every later tick of the same process in auto mode evaluates with that
\* threshold.
C28_UnsavedRunStillTakesEffect ==
    /\ [](UnsavedRun
             => /\ ~IsInLearningPhase(state)
                /\ state.LastCalibTime = run.at
                /\ run.threshold = NewThreshold(state.IdleBaseline)
                /\ CurrentThreshold(state) = run.threshold)
    /\ [][(UnsavedRun /\ TickTaken /\ dec'.auto)
             => /\ dec'.kind = "eval"
                /\ dec'.threshold = run.threshold
                /\ running']_vars

\* C28, witness: the initial calibration of the hour before succeeded but
\* its save failed; the process was not restarted, and its tick of this
\* hour evaluated with the threshold of that run
C28_Witness ==
    /\ UnsavedRun /\ run.kind = "initial" /\ run.at < now /\ run.at > procStart
    /\ loadState(stateFile).InitialDone = FALSE
    /\ running /\ dec.kind = "eval" /\ dec.at = now /\ dec.auto
    /\ dec.threshold = run.threshold /\ dec.threshold = MinThreshold

\* ------------------------------------------------------------------------
\* The CPU buffer and the configured calibration lookbacks (SpecRetention)
\* ------------------------------------------------------------------------

\* number of hours of one behaviour
MaxRetentionHours == 73

\* default.ini: the three keys of its [calibration] section
DefaultsFile(initial, interval, tracking) ==
    [exists |-> TRUE, parses |-> TRUE, initial_tracking_hours |-> initial,
     recalibration_interval_days |-> interval,
     recalibration_tracking_hours |-> tracking]

\* config.LoadDefaults(path): (calibCfg, err); a key is taken when it is a
\* number above zero
LoadDefaults(file) ==
    LET defaults == [InitialTrackingHours |-> 24,
                     RecalibrationIntervalDays |-> 7,
                     RecalibrationTrackingHours |-> 72]
        k1 == file.initial_tracking_hours
        k2 == file.recalibration_interval_days
        k3 == file.recalibration_tracking_hours
        c1 == IF k1.present /\ k1.isInt /\ k1.val > 0
              THEN [defaults EXCEPT !.InitialTrackingHours = k1.val] ELSE defaults
        c2 == IF k2.present /\ k2.isInt /\ k2.val > 0
              THEN [c1 EXCEPT !.RecalibrationIntervalDays = k2.val] ELSE c1
        c3 == IF k3.present /\ k3.isInt /\ k3.val > 0
              THEN [c2 EXCEPT !.RecalibrationTrackingHours = k3.val] ELSE c2
    IN  IF ~file.exists THEN [err |-> FALSE, calibCfg |-> defaults]
        ELSE IF ~file.parses THEN [err |-> TRUE, calibCfg |-> defaults]
        ELSE [err |-> FALSE, calibCfg |-> c3]

\* CalibrationConfig.InitialLookback, RecalibrationInterval and
\* RecalibrationLookback
InitialLookbackOf(c) == c.InitialTrackingHours * Hour
RecalibrationIntervalOf(c) == c.RecalibrationIntervalDays * 24 * Hour
RecalibrationLookbackOf(c) == c.RecalibrationTrackingHours * Hour

\* the default.ini files of the model: none, and one that asks for a
\* recalibration on the last four days
DefaultsFiles ==
    {[DefaultsFile(NoKey, NoKey, NoKey) EXCEPT !.exists = FALSE],
     DefaultsFile(NoKey, NoKey, IntKey(96))}

\* the state an earlier process left after a calibration 95 hours ago
CalibratedDaysAgo ==
    [PriorCalibration EXCEPT !.LastCalibTime = 0 - 95 * Hour,
                             !.StartTime = 0 - 200 * Hour]

\* a process started in auto mode at time 0, after the first sample of its
\* CPU monitor; arg holds its CalibrationConfig, res the timestamps of the
\* samples its CPU monitor has recorded
InitRetention ==
    /\ now = 0 /\ ticks = 0 /\ events = 0
    /\ load = 2 /\ users = 0
    /\ \E sfile \in {NoStateFile, saveState(NoStateFile, CalibratedDaysAgo, SaveOk)} :
           LET p == StartProcess(AutoFile, sfile, 0, SaveOk)
           IN  /\ cfgFile = p.cfgFile /\ cfg = p.cfg /\ calibSet = p.calibSet
               /\ state = p.state /\ stateFile = p.stateFile
    /\ \E f \in DefaultsFiles :
           arg = [op |-> "calibCfg", calibCfg |-> LoadDefaults(f).calibCfg]
    /\ running = TRUE
    /\ procStart = 0
    /\ cpuSamples = CpuTakeSample(<<>>, 0, 2)
    /\ userSamples = <<>>
    /\ due = NothingDue
    /\ restartReq = FALSE
    /\ signal = "none"
    /\ dec = NoDecision
    /\ run = NoRun
    /\ lastCall = [NoCalls EXCEPT !.cpu = 0, !.cpuOk = 0]
    /\ everCalibrated = FALSE
    /\ pending = NoPending
    /\ res = [op |-> "recorded", stamps |-> <<0>>]
    /\ BetweenHandlers

\* the samples of an hour that the model follows: the one of the hour's last
\* tick and, in every 24th hour, those of the minWindowSamples last ticks
FollowedReadings(hour) ==
    IF hour % 24 = 0 THEN [i \in 1..minWindowSamples |-> 2] ELSE <<2>>

\* An hour passes.  The CPU monitor served its ticker meanwhile; the
\* calibration check of the hour's end is waiting.
RetentionHourPasses ==
    LET f == FollowedReadings(ticks + 1)
    IN  /\ ticks < MaxRetentionHours
        /\ running /\ due = NothingDue
        /\ now' = now + calibrationCheckInterval
        /\ ticks' = ticks + 1
        /\ cpuSamples' = CpuTakeSamples(cpuSamples, now + calibrationCheckInterval, f)
        /\ res' = [res EXCEPT !.stamps =
                      @ \o [k \in 1..Len(f) |->
                               now + calibrationCheckInterval
                                 - (Len(f) - k) * samplingInterval]]
        /\ lastCall' = [lastCall EXCEPT !.cpu = now + calibrationCheckInterval,
                                        !.cpuOk = now + calibrationCheckInterval]
        /\ due' = [NothingDue EXCEPT !.calib = calibSet]
        /\ UNCHANGED <<mu, pc, locals,
                       signal, pending, events, load, users, running, procStart,
                       userSamples, cfgFile, cfg, calibSet, state, stateFile,
                       restartReq, dec, run, everCalibrated, arg>>

\* One tick of runCalibrationLoop with the timing of the CalibrationConfig;
\* the save succeeds and restartService's request fails.
RetentionCheck ==
    LET c == arg.calibCfg
        initial == /\ ~state.InitialDone
                   /\ Since(state.StartTime, now) >= InitialLookbackOf(c)
        weekly == /\ state.InitialDone
                  /\ Since(state.LastCalibTime, now) >= RecalibrationIntervalOf(c)
        lookback == IF initial THEN InitialLookbackOf(c)
                    ELSE RecalibrationLookbackOf(c)
    IN  /\ running /\ calibSet /\ due.calib
        /\ due' = [due EXCEPT !.calib = FALSE]
        /\ IF initial \/ weekly
           THEN \E r \in {Run(state, stateFile, GetSamples(cpuSamples), lookback,
                              now, SaveOk)} :
                    /\ state' = r.state
                    /\ stateFile' = r.file
                    /\ cfgFile' = IF r.err = ""
                                  THEN writeBannerToConfig(cfgFile, "calibrated")
                                  ELSE cfgFile
                    /\ run' = [kind |-> IF initial THEN "initial" ELSE "weekly",
                               at |-> now, err |-> r.err, threshold |-> r.threshold]
                    /\ everCalibrated' = (everCalibrated \/ r.err = "")
                    /\ pending' = IF r.err = "" THEN r.threshold ELSE pending
           ELSE /\ state' = state
                /\ stateFile' = stateFile
                /\ cfgFile' = IF IsInLearningPhase(state)
                              THEN writeBannerToConfig(cfgFile, "learning")
                              ELSE cfgFile
                /\ run' = [kind |-> IF IsInLearningPhase(state) THEN "banner"
                                    ELSE "idle",
                           at |-> now, err |-> "", threshold |-> 0]
                /\ everCalibrated' = everCalibrated
                /\ pending' = pending
        /\ UNCHANGED <<mu, pc, locals,
                       signal, now, ticks, events, load, users, running,
                       procStart, cpuSamples, userSamples, cfg, calibSet,
                       restartReq, dec, lastCall, arg, res>>

NextRetention ==
    \/ RetentionHourPasses
    \/ RetentionCheck

SpecRetention == InitRetention /\ [][NextRetention]_vars

\* the lookback of the run the step makes
LookbackOfRun ==
    IF run'.kind = "initial" THEN InitialLookbackOf(arg.calibCfg)
    ELSE RecalibrationLookbackOf(arg.calibCfg)

\* C29 (as claimed): whatever lookbacks are configured, every sample the CPU
\* monitor of the running process recorded within the lookback of a
\* calibration run is in the buffer the run takes its snapshot of.
C29_BufferCoversLookback ==
    [][(due.calib /\ ~due'.calib /\ run'.kind \in {"initial", "weekly"}
          /\ run'.at = now)
          => \A k \in 1..Len(res.stamps) :
                 After(res.stamps[k], now - LookbackOfRun)
                    => \E i \in 1..Len(cpuSamples) :
                           cpuSamples[i].timestamp = res.stamps[k]]_vars

\* ------------------------------------------------------------------------
\* The session buffer and the configured session window
\* ------------------------------------------------------------------------

\* C30 (as claimed): whatever user_check_minutes is configured, when
\* NoUsersLoggedIn is evaluated the latest sample recorded with a count of 1
\* or more, if it lies within the window, is still in the buffer, and the
\* predicate is false.
C30_SessionBufferCoversWindow ==
    (res.op = "SessionCheck" /\ After(res.busyAt, res.at - res.minutes * Minute))
        => /\ \E i \in 1..Len(userSamples) :
                  /\ userSamples[i].timestamp = res.busyAt
                  /\ userSamples[i].userCount >= 1
           /\ res.result = FALSE

\* ------------------------------------------------------------------------
\* A run as a function of the samples inside its lookback
\* ------------------------------------------------------------------------

\* the samples of the buffer that lie inside the lookback of the last run
InLookback ==
    SelectSeq(GetSamples(cpuSamples),
              LAMBDA s : After(s.Timestamp, now - res.lookback))

\* Calibration States a run can start from besides the ones of InitRun:
\* learning since time 0, and calibrated on a baseline of 37%
StartingStates ==
    {New(NoStateFile, 0, SaveOk).state,
     [PriorCalibration EXCEPT !.CurrentThreshold = 40,
                              !.IdleBaseline = Frac(37, 1)]}

\* C31: the outcome of a run (its error, the threshold it returns and
\* stores, the baseline it stores) is the outcome of a run over the samples
\* inside the lookback alone, started from any other Calibration State:
\* learning or calibrated, whatever the previous threshold and baseline.
C31_RunDependsOnLookbackSamplesOnly ==
    (res.op = "Run")
        => \A st \in StartingStates :
               \E r \in {Run(st, NoStateFile, InLookback, res.lookback, now, SaveOk)} :
                   /\ r.err = res.err
                   /\ r.threshold = res.threshold
                   /\ (res.err = "")
                         => /\ state.CurrentThreshold = r.state.CurrentThreshold
                            /\ state.IdleBaseline = r.state.IdleBaseline
                            /\ state.InitialDone = r.state.InitialDone

\* C31, witness: a Calibrator whose previous threshold was 8 (baseline 5)
\* ran over samples that are all 0% and stored threshold 5 and baseline 0
C31_Witness ==
    /\ res.op = "Run" /\ res.err = ""
    /\ state.StartTime = PriorCalibration.StartTime
    /\ PriorCalibration.CurrentThreshold = 8
    /\ state.CurrentThreshold = 5 /\ state.IdleBaseline = Frac(0, 1)
    /\ Len(InLookback) >= minCalibSamples

\* ------------------------------------------------------------------------
\* The tasks step by step: the monitors' mutexes, the snapshot (SpecLocks)
\* ------------------------------------------------------------------------

\* number of steps of the clock of one behaviour
MaxLockTicks == 1

\* the two monitors; the sampling task of a monitor bears its name
Monitors == {"cpu", "user"}

BufferOf(m) == IF m = "cpu" THEN cpuSamples ELSE userSamples
Retention(m) == IF m = "cpu" THEN maxSampleRetention ELSE maxUserSampleRetention

\* a Lock that does not wait for the readers to leave
CanLock_IgnoresReaders(m) ==
    mu[m].writer = "none"

\* m.mu.Lock() returns: no writer and no reader holds the mutex
CanLock(m) ==
    mu[m].writer = "none" /\ mu[m].readers = {}

\* m.mu.RLock() returns: no writer holds the mutex and none waits for it
CanRLock(m) ==
    mu[m].writer = "none" /\ pc[m] # "Lock"

\* the calls a reading task makes into the monitors, in order
MainCalls ==
    <<[fn |-> "GetCurrentUsage", m |-> "cpu"],
      [fn |-> "GetCurrentUserCount", m |-> "user"],
      [fn |-> "IsBelowThreshold", m |-> "cpu"],
      [fn |-> "NoUsersLoggedIn", m |-> "user"]>>
CalibCalls == <<[fn |-> "GetSamples", m |-> "cpu"]>>
CallsOf(t) == IF t = "main" THEN MainCalls ELSE CalibCalls

\* what a call returns when it reads the monitor's buffer at time t, for a
\* decision tick that evaluates with the configuration c
Returned(fn, samples, c, t) ==
    CASE fn = "GetCurrentUsage" ->
             IF Len(samples) = 0 THEN 0 ELSE samples[Len(samples)].usage
      [] fn = "GetCurrentUserCount" ->
             IF Len(samples) = 0 THEN 0 ELSE samples[Len(samples)].userCount
      [] fn = "IsBelowThreshold" ->
             IsBelowThreshold(samples, t, c.CPUThreshold, c.CPUCheckMinutes)
      [] fn = "NoUsersLoggedIn" ->
             NoUsersLoggedIn(samples, t, c.UserCheckMinutes)
      [] OTHER -> samples

\* the steps of the clock: an hour, in which the CPU reads of the nine
\* sampling ticks before the last one succeeded; a stall of the machine as
\* long as the CPU buffer's retention
LockSteps == {calibrationCheckInterval, maxSampleRetention}

\* A process started in auto mode at time 0 that found the state file of an
\* earlier process (still learning, or calibrated), one hour later: the
\* session read of the start and the CPU reads of the nine sampling ticks
\* before this one succeeded, and the tick of every ticker is waiting.
InitLocks ==
    /\ now = calibrationCheckInterval /\ ticks = 0 /\ events = 0
    /\ load = 2 /\ users = 0
    /\ \E st \in {PriorLearning, PriorCalibration} :
           LET p == StartProcess(AutoFile, saveState(NoStateFile, st, SaveOk),
                                 0, SaveOk)
           IN  /\ cfgFile = p.cfgFile /\ cfg = p.cfg /\ calibSet = p.calibSet
               /\ state = p.state /\ stateFile = p.stateFile
    /\ running = TRUE
    /\ procStart = 0
    /\ cpuSamples = CpuTakeSamples(<<>>, calibrationCheckInterval - samplingInterval,
                                   [i \in 1..(minCalibSamples - 1) |-> 2])
    /\ userSamples = UserTakeSample(<<>>, 0, 0)
    /\ due = [cpu |-> TRUE, user |-> TRUE, eval |-> TRUE, calib |-> TRUE]
    /\ restartReq = FALSE
    /\ signal = "none"
    /\ dec = NoDecision
    /\ run = NoRun
    /\ lastCall = [NoCalls EXCEPT
                      !.cpu = calibrationCheckInterval - samplingInterval,
                      !.cpuOk = calibrationCheckInterval - samplingInterval,
                      !.user = calibrationCheckInterval - samplingInterval,
                      !.userOk = 0]
    /\ everCalibrated = FALSE
    /\ pending = NoPending
    /\ arg = NoArg
    /\ res = NoArg
    /\ BetweenHandlers

\* The clock moves on once every task is back in its select; the tick of
\* every ticker that fired meanwhile is waiting.
TasksAdvance ==
    \E d \in LockSteps :
        /\ ticks < MaxLockTicks
        /\ running /\ due = NothingDue /\ pc = AtSelect /\ ~restartReq
        /\ now' = now + d
        /\ ticks' = ticks + 1
        /\ cpuSamples' =
               IF d = calibrationCheckInterval
               THEN CpuTakeSamples(cpuSamples, now + d - samplingInterval,
                                   [i \in 1..(minCalibSamples - 1) |-> load])
               ELSE cpuSamples
        /\ lastCall' =
               IF d = calibrationCheckInterval
               THEN [lastCall EXCEPT !.cpu = now + d - samplingInterval,
                                     !.cpuOk = now + d - samplingInterval,
                                     !.user = now + d - samplingInterval]
               ELSE lastCall
        /\ due' = [cpu |-> TRUE, user |-> TRUE,
                   eval |-> TickIn(procStart, evaluationInterval, now, now + d),
                   calib |-> TickIn(procStart, calibrationCheckInterval, now, now + d)]
        /\ UNCHANGED <<mu, pc, locals, signal, pending, events, load, users,
                       running, procStart, userSamples, cfgFile, cfg, calibSet,
                       state, stateFile, restartReq, dec, run, everCalibrated,
                       arg, res>>

\* takeSample, up to its call of m.mu.Lock(): the sensor is read, and a
\* failed read returns
TakeSampleReads(m) ==
    \E ok \in BOOLEAN :
        /\ running /\ due[m] /\ pc[m] = "select"
        /\ events + Cost(~ok) <= MaxEvents
        /\ events' = events + Cost(~ok)
        /\ due' = [due EXCEPT ![m] = FALSE]
        /\ pc' = [pc EXCEPT ![m] = IF ok THEN "Lock" ELSE "select"]
        /\ locals' = [locals EXCEPT ![m] =
                         IF ok THEN [op |-> "takeSample",
                                     value |-> IF m = "cpu" THEN load ELSE users]
                         ELSE NoArg]
        /\ lastCall' =
               IF m = "cpu"
               THEN [lastCall EXCEPT !.cpu = now, !.cpuOk = IF ok THEN now ELSE @]
               ELSE [lastCall EXCEPT !.user = now,
                                     !.userOk = IF ok THEN now ELSE @,
                                     !.userBusy = IF ok /\ users > 0 THEN now ELSE @]
        /\ UNCHANGED <<mu, signal, pending, now, ticks, load, users, running,
                       procStart, cpuSamples, userSamples, cfgFile, cfg, calibSet,
                       state, stateFile, restartReq, dec, run, everCalibrated,
                       arg, res>>

\* m.mu.Lock() returns
TakeSampleLocks(m) ==
    /\ running /\ pc[m] = "Lock" /\ CanLock(m)
    /\ mu' = [mu EXCEPT ![m].writer = m]
    /\ pc' = [pc EXCEPT ![m] = "append"]
    /\ UNCHANGED <<locals, signal, pending, now, ticks, events, load, users,
                   running, procStart, cpuSamples, userSamples, due, cfgFile, cfg,
                   calibSet, state, stateFile, restartReq, dec, run, lastCall,
                   everCalibrated, arg, res>>

\* m.samples = append(m.samples, ...)
TakeSampleAppends(m) ==
    /\ running /\ pc[m] = "append"
    /\ cpuSamples' = IF m = "cpu"
                     THEN Append(cpuSamples, [timestamp |-> now,
                                              usage |-> locals[m].value])
                     ELSE cpuSamples
    /\ userSamples' = IF m = "user"
                      THEN Append(userSamples, [timestamp |-> now,
                                                userCount |-> locals[m].value])
                      ELSE userSamples
    /\ pc' = [pc EXCEPT ![m] = "prune"]
    /\ UNCHANGED <<mu, locals, signal, pending, now, ticks, events, load, users,
                   running, procStart, due, cfgFile, cfg, calibSet, state,
                   stateFile, restartReq, dec, run, lastCall, everCalibrated,
                   arg, res>>

\* the prune of takeSample
TakeSamplePrunes(m) ==
    /\ running /\ pc[m] = "prune"
    /\ cpuSamples' = IF m = "cpu"
                     THEN PruneOld(cpuSamples, now - maxSampleRetention)
                     ELSE cpuSamples
    /\ userSamples' = IF m = "user"
                      THEN PruneOld(userSamples, now - maxUserSampleRetention)
                      ELSE userSamples
    /\ pc' = [pc EXCEPT ![m] = "Unlock"]
    /\ UNCHANGED <<mu, locals, signal, pending, now, ticks, events, load, users,
                   running, procStart, due, cfgFile, cfg, calibSet, state,
                   stateFile, restartReq, dec, run, lastCall, everCalibrated,
                   arg, res>>

\* takeSample returns: the deferred m.mu.Unlock()
TakeSampleUnlocks(m) ==
    /\ running /\ pc[m] = "Unlock"
    /\ mu' = [mu EXCEPT ![m].writer = "none"]
    /\ pc' = [pc EXCEPT ![m] = "select"]
    /\ locals' = [locals EXCEPT ![m] = NoArg]
    /\ UNCHANGED <<signal, pending, now, ticks, events, load, users, running,
                   procStart, cpuSamples, userSamples, due, cfgFile, cfg,
                   calibSet, state, stateFile, restartReq, dec, run, lastCall,
                   everCalibrated, arg, res>>

\* A tick of main's evaluation loop, up to evaluateShutdownCondition's first
\* call into a monitor: the reload, the learning-phase skip, the threshold.
EvaluationBegins ==
    LET c == ReloadConfig(cfg, cfgFile)
        eff == EffectiveConfig(c, calibSet, state)
    IN  /\ running /\ due.eval /\ pc.main = "select"
        /\ due' = [due EXCEPT !.eval = FALSE]
        /\ IF SkipsEvaluation(c, calibSet, state)
           THEN /\ cfg' = c
                /\ dec' = [NoDecision EXCEPT !.kind = "skip", !.at = now,
                                             !.reloadErr = Load(cfgFile).err,
                                             !.auto = c.AutoMode,
                                             !.prevSink = dec.sink,
                                             !.prevSinkErr = dec.sinkErr]
                /\ pc' = pc
                /\ locals' = locals
           ELSE /\ cfg' = eff
                /\ dec' = dec
                /\ pc' = [pc EXCEPT !.main = "RLock"]
                /\ locals' = [locals EXCEPT !.main =
                                 [op |-> "evaluateShutdownCondition", call |-> 1,
                                  auto |-> c.AutoMode,
                                  reloadErr |-> Load(cfgFile).err,
                                  results |-> <<>>]]
        /\ pending' = IF c.AutoMode THEN NoPending ELSE pending
        /\ UNCHANGED <<mu, signal, now, ticks, events, load, users, running,
                       procStart, cpuSamples, userSamples, cfgFile, calibSet,
                       state, stateFile, restartReq, run, lastCall,
                       everCalibrated, arg, res>>

\* A tick of runCalibrationLoop, up to its call of cpuMon.GetSamples().
CalibrationBegins ==
    /\ running /\ calibSet /\ due.calib /\ pc.calib = "select"
    /\ due' = [due EXCEPT !.calib = FALSE]
    /\ pc' = [pc EXCEPT !.calib = "RLock"]
    /\ locals' = [locals EXCEPT !.calib =
                     [op |-> "tick", call |-> 1, results |-> <<>>]]
    /\ UNCHANGED <<mu, signal, pending, now, ticks, events, load, users, running,
                   procStart, cpuSamples, userSamples, cfgFile, cfg, calibSet,
                   state, stateFile, restartReq, dec, run, lastCall,
                   everCalibrated, arg, res>>

\* m.mu.RLock() returns in the call the reading task t is making
ReaderRLocks(t) ==
    /\ running /\ pc[t] = "RLock"
    /\ CanRLock(CallsOf(t)[locals[t].call].m)
    /\ mu' = [mu EXCEPT ![CallsOf(t)[locals[t].call].m].readers = @ \cup {t}]
    /\ pc' = [pc EXCEPT ![t] = "read"]
    /\ UNCHANGED <<locals, signal, pending, now, ticks, events, load, users,
                   running, procStart, cpuSamples, userSamples, due, cfgFile, cfg,
                   calibSet, state, stateFile, restartReq, dec, run, lastCall,
                   everCalibrated, arg, res>>

\* The call reads the buffer and returns, the deferred m.mu.RUnlock()
\* included.  GetSamples returns a copy of what the buffer holds; res keeps
\* what the buffer held at that moment.
ReaderReturns(t) ==
    LET call == CallsOf(t)[locals[t].call]
        last == locals[t].call = Len(CallsOf(t))
    IN  /\ running /\ pc[t] = "read"
        /\ mu' = [mu EXCEPT ![call.m].readers = @ \ {t}]
        /\ locals' = [locals EXCEPT
                         ![t].call = IF last THEN @ ELSE @ + 1,
                         ![t].results =
                             Append(@, Returned(call.fn, BufferOf(call.m), cfg, now))]
        /\ pc' = [pc EXCEPT ![t] = IF ~last THEN "RLock"
                                   ELSE IF t = "main" THEN "Shutdown" ELSE "Run"]
        /\ res' = IF t = "calib"
                  THEN [op |-> "GetSamples", retained |-> cpuSamples, at |-> now]
                  ELSE res
        /\ UNCHANGED <<signal, pending, now, ticks, events, load, users, running,
                       procStart, cpuSamples, userSamples, due, cfgFile, cfg,
                       calibSet, state, stateFile, restartReq, dec, run, lastCall,
                       everCalibrated, arg>>

\* The rest of evaluateShutdownCondition: the sink is called when both
\* verdicts are true, and the tick is over.
EvaluationDecides ==
    LET cpuBelow == locals.main.results[3]
        noUsers == locals.main.results[4]
        sink == IF cpuBelow /\ noUsers THEN 1 ELSE 0
    IN  /\ running /\ pc.main = "Shutdown"
        /\ \E cmdFails \in BOOLEAN :
            /\ cmdFails => sink = 1
            /\ events + Cost(cmdFails) <= MaxEvents
            /\ events' = events + Cost(cmdFails)
            /\ dec' = [kind |-> "eval", at |-> now,
                       reloadErr |-> locals.main.reloadErr,
                       auto |-> locals.main.auto,
                       threshold |-> cfg.CPUThreshold,
                       cpuMinutes |-> cfg.CPUCheckMinutes,
                       userMinutes |-> cfg.UserCheckMinutes,
                       cpuBelow |-> cpuBelow, noUsers |-> noUsers,
                       sink |-> sink,
                       sinkErr |-> IF sink = 1 THEN Shutdown(cmdFails) ELSE "",
                       prevSink |-> dec.sink, prevSinkErr |-> dec.sinkErr]
        /\ pc' = [pc EXCEPT !.main = "select"]
        /\ locals' = [locals EXCEPT !.main = NoArg]
        /\ UNCHANGED <<mu, signal, pending, now, ticks, load, users, running,
                       procStart, cpuSamples, userSamples, due, cfgFile, cfg,
                       calibSet, state, stateFile, restartReq, run, lastCall,
                       everCalibrated, arg, res>>

\* a calibration check that reads the monitor's buffer again where it uses
\* its snapshot
CalibrationChecks_ReadsBuffer ==
    /\ running /\ pc.calib = "Run"
    /\ \E r \in {calibrationTick(state, stateFile, cfgFile, cpuSamples, now,
                                  SaveOk)} :
        \E restarts \in BOOLEAN :
            /\ restarts => r.restart
            /\ state' = r.state
            /\ stateFile' = r.stateFile
            /\ cfgFile' = r.cfgFile
            /\ run' = r.run
            /\ restartReq' = (restartReq \/ restarts)
            /\ everCalibrated' = (everCalibrated \/ r.restart)
            /\ pending' = IF r.restart THEN r.run.threshold ELSE pending
    /\ pc' = [pc EXCEPT !.calib = "select"]
    /\ locals' = [locals EXCEPT !.calib = NoArg]
    /\ UNCHANGED <<mu, signal, now, ticks, events, load, users, running,
                   procStart, cpuSamples, userSamples, due, cfg, calibSet, dec,
                   lastCall, arg, res>>

\* The rest of the tick of runCalibrationLoop, on the snapshot it took: the
\* run that is due, or the learning banner.  After a successful run
\* restartService asks systemd for a restart, which may fail.
CalibrationChecks ==
    /\ running /\ pc.calib = "Run"
    /\ \E r \in {calibrationTick(state, stateFile, cfgFile,
                                  locals.calib.results[1], now, SaveOk)} :
        \E restarts \in BOOLEAN :
            /\ restarts => r.restart
            /\ state' = r.state
            /\ stateFile' = r.stateFile
            /\ cfgFile' = r.cfgFile
            /\ run' = r.run
            /\ restartReq' = (restartReq \/ restarts)
            /\ everCalibrated' = (everCalibrated \/ r.restart)
            /\ pending' = IF r.restart THEN r.run.threshold ELSE pending
    /\ pc' = [pc EXCEPT !.calib = "select"]
    /\ locals' = [locals EXCEPT !.calib = NoArg]
    /\ UNCHANGED <<mu, signal, now, ticks, events, load, users, running,
                   procStart, cpuSamples, userSamples, due, cfg, calibSet, dec,
                   lastCall, arg, res>>

NextLocks ==
    \/ TasksAdvance
    \/ \E m \in Monitors : TakeSampleReads(m)
    \/ \E m \in Monitors : TakeSampleLocks(m)
    \/ \E m \in Monitors : TakeSampleAppends(m)
    \/ \E m \in Monitors : TakeSamplePrunes(m)
    \/ \E m \in Monitors : TakeSampleUnlocks(m)
    \/ EvaluationBegins
    \/ CalibrationBegins
    \/ \E t \in {"main", "calib"} : ReaderRLocks(t)
    \/ \E t \in {"main", "calib"} : ReaderReturns(t)
    \/ EvaluationDecides
    \/ CalibrationChecks

SpecLocks == InitLocks /\ [][NextLocks]_vars

\* the snapshot the calibration task holds between its call of GetSamples
\* and the end of its tick
HeldSnapshot == GetSamples(locals.calib.results[1])

\* C32: the snapshot GetSamples returns holds exactly the samples the buffer
\* retained at the moment of the call, oldest first; as long as the
\* calibration task holds it, no step of any task changes it, the appends
\* and prunes of takeSample included; and the run (or the banner) of the
\* tick is the one that snapshot gives, whatever the buffer has become.
C32_SnapshotIsAnUnchangingCopy ==
    /\ [][(pc.calib = "read" /\ pc'.calib = "Run")
            => /\ GetSamples(locals'.calib.results[1]) = GetSamples(cpuSamples)
               /\ \A i \in 1..(Len(cpuSamples) - 1) :
                      ~After(GetSamples(locals'.calib.results[1])[i].Timestamp,
                             GetSamples(locals'.calib.results[1])[i + 1].Timestamp)]_vars
    /\ [][(pc.calib = "Run" /\ pc'.calib = "Run")
            => GetSamples(locals'.calib.results[1]) = HeldSnapshot]_vars
    /\ [][(pc.calib = "Run" /\ pc'.calib = "select")
            => /\ HeldSnapshot = GetSamples(res.retained)
               /\ run' = calibrationTick(state, stateFile, cfgFile, res.retained,
                                         now, SaveOk).run]_vars

\* C32, witness: the calibration task holds a snapshot of ten samples or
\* more, all of which the buffer has pruned since, while the buffer has
\* taken the sample of the current tick
C32_Witness ==
    /\ pc.calib = "Run"
    /\ Len(HeldSnapshot) >= minCalibSamples
    /\ Len(cpuSamples) = 1
    /\ cpuSamples[1].timestamp = now
    /\ After(now, HeldSnapshot[Len(HeldSnapshot)].Timestamp)
    /\ HeldSnapshot[1].Timestamp # cpuSamples[1].timestamp

\* task t holds the mutex of monitor m, for writing or for reading
Holds(t, m) == mu[m].writer = t \/ t \in mu[m].readers

\* the buffer of monitor m is appended to but not pruned yet
Unpruned(m) == pc[m] = "prune"

\* task t is inside a handler and waits for a mutex it cannot get
Waits(t) ==
    IF t \in Monitors
    THEN pc[t] = "Lock" /\ ~CanLock(t)
    ELSE IF pc[t] = "RLock"
         THEN ~CanRLock(CallsOf(t)[locals[t].call].m)
         ELSE FALSE

\* C33: while the clock stands (the tasks take their steps one by one), a
\* buffer changes only in a step of its own sampling task, which
\* holds the buffer's mutex for writing from before the append until after
\* the prune; while a task holds a mutex for reading nobody holds it for
\* writing, so no reader meets an appended but unpruned buffer; no task
\* holds both mutexes; and whenever some task is inside a handler, some
\* task inside a handler can take its next step.
C33_BuffersAreLockedByTheirWriters ==
    /\ [][\A m \in Monitors :
              (/\ now' = now
               /\ IF m = "cpu" THEN cpuSamples' # cpuSamples
                               ELSE userSamples' # userSamples)
                 => /\ pc[m] \in {"append", "prune"}
                    /\ pc'[m] # pc[m]
                    /\ \A t \in Tasks \ {m} : pc'[t] = pc[t]
                    /\ mu[m].writer = m /\ mu'[m].writer = m]_vars
    /\ [](\A m \in Monitors :
              /\ mu[m].writer \in {"none", m}
              /\ (pc[m] \in {"append", "prune", "Unlock"}) <=> (mu[m].writer = m)
              /\ (mu[m].readers # {}) => (mu[m].writer = "none" /\ ~Unpruned(m))
              /\ (mu[m].writer = "none" /\ BufferOf(m) # <<>>)
                    => BufferOf(m) =
                           PruneOld(BufferOf(m),
                                    BufferOf(m)[Len(BufferOf(m))].timestamp
                                        - Retention(m)))
    /\ [](\A t \in Tasks : ~(Holds(t, "cpu") /\ Holds(t, "user")))
    /\ []((\E t \in Tasks : pc[t] # "select")
              => \E t \in Tasks : pc[t] # "select" /\ ~Waits(t))

\* C33, witness: main and the calibration task read the CPU buffer at the
\* same time while the CPU sampling task waits in Lock, and the session
\* sampling task is between its append and its prune, its buffer holding
\* the new sample and one that is older than the retention
C33_Witness ==
    /\ mu.cpu.readers = {"main", "calib"}
    /\ pc.cpu = "Lock"
    /\ pc.user = "prune" /\ mu.user.writer = "user"
    /\ Len(userSamples) = 2
    /\ ~After(userSamples[1].timestamp, now - maxUserSampleRetention)

\* ------------------------------------------------------------------------
\* The data behind the initial calibration
\* ------------------------------------------------------------------------

\* the step is a calibration tick that starts the initial run
InitialRunStarts ==
    /\ due.calib /\ ~due'.calib
    /\ run'.kind = "initial" /\ run'.at = now

\* C34 (as claimed): whenever the initial run is started, the CPU monitor
\* whose snapshot it analyses has been sampling for the initial lookback or
\* longer, also in a process that was started during the learning phase.
C34_InitialRunHasFullLookbackOfData ==
    [][InitialRunStarts => now - procStart >= InitialLookback]_vars

\* ------------------------------------------------------------------------
\* config.Load as a function of config.ini, and the banner (SpecLoad)
\* ------------------------------------------------------------------------

\* the values a key of [monitoring] is given in the model's files
LoadValues == {0 - 1, 0, 30, 100, 101}

\* cpu_threshold: commented out, a text, or one of the values
ThresholdKeys == {NoKey, TextKey} \cup {IntKey(v) : v \in LoadValues}

\* a window length: absent, zero, or five minutes
WindowKeys == {NoKey, IntKey(0), IntKey(5)}

\* the files config.Load is applied to
LoadFiles ==
    {ConfigFile(k1, k2, k3) :
        k1 \in WindowKeys, k2 \in WindowKeys, k3 \in ThresholdKeys}
    \cup {MissingFile, BrokenFile}

InitLoad ==
    /\ now = 0
    /\ load = 2 /\ users = 0
    /\ cpuSamples = <<>> /\ userSamples = <<>>
    /\ due = NothingDue
    /\ cfgFile \in LoadFiles
    /\ cfg = Load(AutoFile).cfg
    /\ calibSet = FALSE /\ state = ZeroState /\ stateFile = NoStateFile
    /\ AtRest

\* config.Load(configPath) is called
ApplyLoad ==
    /\ res' = [op |-> "Load", err |-> Load(cfgFile).err,
               cfg |-> Load(cfgFile).cfg]
    /\ res' # res
    /\ UNCHANGED <<mu, pc, locals, signal, pending, now, ticks, events, load,
                   users, running, procStart, cpuSamples, userSamples, due,
                   cfgFile, cfg, calibSet, state, stateFile, restartReq, dec,
                   run, lastCall, everCalibrated, arg>>

\* a Calibrator writes its learning or calibrated banner into the file
ApplyWriteBanner ==
    \E banner \in {"learning", "calibrated"} :
        /\ cfgFile' = writeBannerToConfig(cfgFile, banner)
        /\ cfgFile' # cfgFile
        /\ res' = NoArg
        /\ UNCHANGED <<mu, pc, locals, signal, pending, now, ticks, events,
                       load, users, running, procStart, cpuSamples, userSamples,
                       due, cfg, calibSet, state, stateFile, restartReq, dec,
                       run, lastCall, everCalibrated, arg>>

\* calibrator.StripBanner(configPath) is called
ApplyStripBanner ==
    /\ cfgFile' = StripBanner(cfgFile)
    /\ cfgFile' # cfgFile
    /\ res' = NoArg
    /\ UNCHANGED <<mu, pc, locals, signal, pending, now, ticks, events, load,
                   users, running, procStart, cpuSamples, userSamples, due, cfg,
                   calibSet, state, stateFile, restartReq, dec, run, lastCall,
                   everCalibrated, arg>>

NextLoad ==
    \/ ApplyLoad
    \/ ApplyWriteBanner
    \/ ApplyStripBanner

SpecLoad == InitLoad /\ [][NextLoad]_vars

\* the file has an uncommented cpu_threshold line with a value
ExplicitThreshold == cfgFile.exists /\ cfgFile.cpu_threshold.present

\* C35 (as claimed): the mode Load returns is manual exactly when the file
\* has an explicit cpu_threshold value and auto exactly when it has none,
\* and a banner written into the file or stripped from it leaves the mode
\* Load returns as it was.
C35_ModeFollowsPresenceOfThreshold ==
    /\ []((res.op = "Load" /\ ~res.err)
            => (res.cfg.AutoMode <=> ~ExplicitThreshold))
    /\ [][(cfgFile' # cfgFile)
            => /\ Load(cfgFile').err = Load(cfgFile).err
               /\ Load(cfgFile').cfg.AutoMode = Load(cfgFile).cfg.AutoMode]_vars

\* ------------------------------------------------------------------------
\* The learning clock
\* ------------------------------------------------------------------------

\* C36 (as claimed): a Calibrator constructed without a persisted record
\* has StartTime = now; from one Calibrator of the service to the next
\* state of it, or to the Calibrator of the restarted process, StartTime
\* stays what it is, and LearningTimeRemaining does not increase.
C36_StartTimeIsSetOnce ==
    /\ \A written \in SaveOutcomes :
           New(NoStateFile, now, written).state.StartTime = now
    /\ [][(calibSet /\ calibSet')
            => /\ state'.StartTime = state.StartTime
               /\ LearningTimeRemaining(state', now')
                      <= LearningTimeRemaining(state, now)]_vars

\* ------------------------------------------------------------------------
\* The decision loop beside a calibration check, statement by statement
\* ------------------------------------------------------------------------

\* The Calibrator's state and config.ini have no lock: main's tick and
\* runCalibrationLoop's tick run as two goroutines whose reads and writes of
\* c.state and of the file interleave.  pc.main and pc.calib name the
\* statement each of the two is about to execute.

\* an empty config.ini: what os.WriteFile leaves between opening the file
\* with O_TRUNC and writing the new content
TruncatedFile == ConfigFile(NoKey, NoKey, NoKey)

\* the service has run for an hour in auto mode; the evaluation tick and the
\* calibration check of the hour's end are waiting.  The state the process
\* started with: a learning clock that began three hours ago (the initial
\* calibration is due), an earlier calibration (the recalibration is due),
\* or none (still learning).
InitRace ==
    /\ now = calibrationCheckInterval /\ ticks = 0 /\ events = 0
    /\ users = 0
    /\ \E sfile \in LifeStateFiles :
           LET p == StartProcess(AutoFile, sfile, 0, SaveOk)
           IN  /\ cfgFile = p.cfgFile /\ cfg = p.cfg /\ calibSet = p.calibSet
               /\ state = p.state /\ stateFile = p.stateFile
    /\ running = TRUE
    /\ procStart = 0
    /\ \E f \in HourReadings :
           /\ load = IF f = <<>> THEN 2 ELSE f[Len(f)]
           /\ cpuSamples = CpuTakeSamples(<<>>, calibrationCheckInterval, f)
    /\ userSamples = UserTakeSample(<<>>, calibrationCheckInterval, 0)
    /\ due = [cpu |-> FALSE, user |-> FALSE, eval |-> TRUE, calib |-> TRUE]
    /\ restartReq = FALSE
    /\ signal = "none"
    /\ dec = NoDecision
    /\ run = NoRun
    /\ lastCall = [NoCalls EXCEPT
                      !.cpu = calibrationCheckInterval,
                      !.cpuOk = IF cpuSamples = <<>> THEN NoCalls.cpuOk
                                ELSE calibrationCheckInterval,
                      !.user = calibrationCheckInterval,
                      !.userOk = calibrationCheckInterval]
    /\ everCalibrated = FALSE
    /\ pending = NoPending
    /\ arg = NoArg
    /\ res = NoArg
    /\ BetweenHandlers

\* main, case <-ticker.C: config.Load and the assignment to cfg
TickReloads ==
    /\ running /\ due.eval /\ pc.main = "select"
    /\ due' = [due EXCEPT !.eval = FALSE]
    /\ cfg' = ReloadConfig(cfg, cfgFile)
    /\ locals' = [locals EXCEPT !.main = [reloadErr |-> Load(cfgFile).err,
                                          read |-> cfgFile]]
    /\ pc' = [pc EXCEPT !.main = "IsInLearningPhase"]
    /\ UNCHANGED <<mu, signal, pending, now, ticks, events, load, users,
                   running, procStart, cpuSamples, userSamples, cfgFile,
                   calibSet, state, stateFile, restartReq, dec, run, lastCall,
                   everCalibrated, arg, res>>

\* main: if cfg.AutoMode && calib != nil && calib.IsInLearningPhase()
TickChecksLearning ==
    /\ running /\ pc.main = "IsInLearningPhase"
    /\ IF SkipsEvaluation(cfg, calibSet, state)
       THEN /\ dec' = [NoDecision EXCEPT !.kind = "skip", !.at = now,
                                         !.reloadErr = locals.main.reloadErr,
                                         !.auto = cfg.AutoMode,
                                         !.prevSink = dec.sink,
                                         !.prevSinkErr = dec.sinkErr]
            /\ pc' = [pc EXCEPT !.main = "select"]
            /\ locals' = [locals EXCEPT !.main = NoArg]
       ELSE /\ dec' = dec
            /\ pc' = [pc EXCEPT !.main = "CurrentThreshold"]
            /\ locals' = locals
    /\ UNCHANGED <<mu, signal, pending, now, ticks, events, load, users,
                   running, procStart, cpuSamples, userSamples, due, cfgFile,
                   cfg, calibSet, state, stateFile, restartReq, run, lastCall,
                   everCalibrated, arg, res>>

\* main: cfg.CPUThreshold = calib.CurrentThreshold() in auto mode, and
\* evaluateShutdownCondition
TickEvaluates ==
    LET eff == EffectiveConfig(cfg, calibSet, state)
        e == evaluateShutdownCondition(eff, cpuSamples, userSamples, now)
    IN  /\ running /\ pc.main = "CurrentThreshold"
        /\ \E cmdFails \in BOOLEAN :
            /\ cmdFails => e.sink = 1
            /\ events + Cost(cmdFails) <= MaxEvents
            /\ events' = events + Cost(cmdFails)
            /\ cfg' = eff
            /\ dec' = [kind |-> "eval", at |-> now,
                       reloadErr |-> locals.main.reloadErr, auto |-> cfg.AutoMode,
                       threshold |-> eff.CPUThreshold,
                       cpuMinutes |-> eff.CPUCheckMinutes,
                       userMinutes |-> eff.UserCheckMinutes,
                       cpuBelow |-> e.cpuBelow, noUsers |-> e.noUsers,
                       sink |-> e.sink,
                       sinkErr |-> IF e.sink = 1 THEN Shutdown(cmdFails) ELSE "",
                       prevSink |-> dec.sink, prevSinkErr |-> dec.sinkErr]
        /\ pc' = [pc EXCEPT !.main = "select"]
        /\ locals' = [locals EXCEPT !.main = NoArg]
        /\ UNCHANGED <<mu, signal, pending, now, ticks, load, users, running,
                       procStart, cpuSamples, userSamples, due, cfgFile,
                       calibSet, state, stateFile, restartReq, run, lastCall,
                       everCalibrated, arg, res>>

\* runCalibrationLoop, case <-ticker.C: GetSamples, the choice between the
\* initial run, the weekly run and the learning banner, and Run up to its
\* "Update state" block.  A run that returns an error ends the tick.
CheckBegins ==
    LET samples == GetSamples(cpuSamples)
        initial == ShouldRunInitial(state, now)
        lookback == IF initial THEN InitialLookback ELSE RecalibrationLookback
        r == Run(state, stateFile, samples, lookback, now, SaveOk)
        outcome == [kind |-> IF initial THEN "initial" ELSE "weekly", at |-> now,
                    err |-> r.err, threshold |-> r.threshold]
    IN  /\ running /\ calibSet /\ due.calib /\ pc.calib = "select"
        /\ due' = [due EXCEPT !.calib = FALSE]
        /\ IF initial \/ ShouldRunWeekly(state, now)
           THEN IF r.err # ""
                THEN /\ run' = outcome
                     /\ pc' = pc
                     /\ locals' = locals
                ELSE /\ run' = run
                     /\ pc' = [pc EXCEPT !.calib = "InitialDone"]
                     /\ locals' = [locals EXCEPT !.calib =
                                      [run |-> outcome,
                                       idleBaseline |-> r.state.IdleBaseline,
                                       banner |-> "calibrated"]]
           ELSE IF IsInLearningPhase(state)
                THEN /\ run' = run
                     /\ pc' = [pc EXCEPT !.calib = "ReadFile"]
                     /\ locals' = [locals EXCEPT !.calib =
                                      [run |-> [kind |-> "banner", at |-> now,
                                                err |-> "", threshold |-> 0],
                                       idleBaseline |-> state.IdleBaseline,
                                       banner |-> "learning"]]
                ELSE /\ run' = [kind |-> "idle", at |-> now, err |-> "",
                                threshold |-> 0]
                     /\ pc' = pc
                     /\ locals' = locals
        /\ UNCHANGED <<mu, signal, pending, now, ticks, events, load, users,
                       running, procStart, cpuSamples, userSamples, cfgFile, cfg,
                       calibSet, state, stateFile, restartReq, dec, lastCall,
                       everCalibrated, arg, res>>

\* Run: c.state.InitialDone = true
RunSetsInitialDone ==
    /\ running /\ pc.calib = "InitialDone"
    /\ state' = [state EXCEPT !.InitialDone = TRUE]
    /\ pc' = [pc EXCEPT !.calib = "LastCalibTime"]
    /\ UNCHANGED <<mu, locals, signal, pending, now, ticks, events, load,
                   users, running, procStart, cpuSamples, userSamples, due,
                   cfgFile, cfg, calibSet, stateFile, restartReq, dec, run,
                   lastCall, everCalibrated, arg, res>>

\* Run: c.state.LastCalibTime = time.Now()
RunSetsLastCalibTime ==
    /\ running /\ pc.calib = "LastCalibTime"
    /\ state' = [state EXCEPT !.LastCalibTime = now]
    /\ pc' = [pc EXCEPT !.calib = "CurrentThreshold"]
    /\ UNCHANGED <<mu, locals, signal, pending, now, ticks, events, load,
                   users, running, procStart, cpuSamples, userSamples, due,
                   cfgFile, cfg, calibSet, stateFile, restartReq, dec, run,
                   lastCall, everCalibrated, arg, res>>

\* Run: c.state.CurrentThreshold = rounded
RunSetsCurrentThreshold ==
    /\ running /\ pc.calib = "CurrentThreshold"
    /\ state' = [state EXCEPT !.CurrentThreshold = locals.calib.run.threshold]
    /\ pc' = [pc EXCEPT !.calib = "IdleBaseline"]
    /\ UNCHANGED <<mu, locals, signal, pending, now, ticks, events, load,
                   users, running, procStart, cpuSamples, userSamples, due,
                   cfgFile, cfg, calibSet, stateFile, restartReq, dec, run,
                   lastCall, everCalibrated, arg, res>>

\* Run: c.state.IdleBaseline = idleBaseline
RunSetsIdleBaseline ==
    /\ running /\ pc.calib = "IdleBaseline"
    /\ state' = [state EXCEPT !.IdleBaseline = locals.calib.idleBaseline]
    /\ pc' = [pc EXCEPT !.calib = "saveState"]
    /\ UNCHANGED <<mu, locals, signal, pending, now, ticks, events, load,
                   users, running, procStart, cpuSamples, userSamples, due,
                   cfgFile, cfg, calibSet, stateFile, restartReq, dec, run,
                   lastCall, everCalibrated, arg, res>>

\* Run: c.saveState(), whose error is logged
RunSaves ==
    /\ running /\ pc.calib = "saveState"
    /\ \E written \in SaveOutcomes :
        /\ events + Cost(written # SaveOk) <= MaxEvents
        /\ events' = events + Cost(written # SaveOk)
        /\ stateFile' = saveState(stateFile, state, written)
    /\ pc' = [pc EXCEPT !.calib = "ReadFile"]
    /\ UNCHANGED <<mu, locals, signal, pending, now, ticks, load, users,
                   running, procStart, cpuSamples, userSamples, due, cfgFile,
                   cfg, calibSet, state, restartReq, dec, run, lastCall,
                   everCalibrated, arg, res>>

\* the tick's last statement: restartService() after a run, nothing after a
\* learning banner
AfterBanner ==
    IF locals.calib.banner = "calibrated" THEN "restartService" ELSE "select"

\* writeBannerToConfig: os.ReadFile and the new content built from it; a
\* read error is logged and the function returns
BannerReads ==
    /\ running /\ pc.calib = "ReadFile"
    /\ IF cfgFile.exists
       THEN /\ pc' = [pc EXCEPT !.calib = "Truncate"]
            /\ locals' = [locals EXCEPT !.calib =
                             [run |-> locals.calib.run,
                              idleBaseline |-> locals.calib.idleBaseline,
                              banner |-> locals.calib.banner,
                              output |-> writeBannerToConfig(cfgFile,
                                                             locals.calib.banner)]]
            /\ run' = run
       ELSE /\ pc' = [pc EXCEPT !.calib = AfterBanner]
            /\ locals' = IF AfterBanner = "select"
                         THEN [locals EXCEPT !.calib = NoArg] ELSE locals
            /\ run' = IF AfterBanner = "select" THEN locals.calib.run ELSE run
    /\ UNCHANGED <<mu, signal, pending, now, ticks, events, load, users,
                   running, procStart, cpuSamples, userSamples, due, cfgFile,
                   cfg, calibSet, state, stateFile, restartReq, dec, lastCall,
                   everCalibrated, arg, res>>

\* writeBannerToConfig: os.WriteFile opens config.ini with O_TRUNC
BannerTruncates ==
    /\ running /\ pc.calib = "Truncate"
    /\ cfgFile' = TruncatedFile
    /\ pc' = [pc EXCEPT !.calib = "Write"]
    /\ UNCHANGED <<mu, locals, signal, pending, now, ticks, events, load,
                   users, running, procStart, cpuSamples, userSamples, due, cfg,
                   calibSet, state, stateFile, restartReq, dec, run, lastCall,
                   everCalibrated, arg, res>>

\* writeBannerToConfig: os.WriteFile writes the new content and closes
BannerWrites ==
    /\ running /\ pc.calib = "Write"
    /\ cfgFile' = locals.calib.output
    /\ pc' = [pc EXCEPT !.calib = AfterBanner]
    /\ locals' = IF AfterBanner = "select"
                 THEN [locals EXCEPT !.calib = NoArg] ELSE locals
    /\ run' = IF AfterBanner = "select" THEN locals.calib.run ELSE run
    /\ UNCHANGED <<mu, signal, pending, now, ticks, events, load, users,
                   running, procStart, cpuSamples, userSamples, due, cfg,
                   calibSet, state, stateFile, restartReq, dec, lastCall,
                   everCalibrated, arg, res>>

\* runCalibrationLoop: Run has returned its threshold; restartService(),
\* whose failure is logged
RestartServiceRuns ==
    /\ running /\ pc.calib = "restartService"
    /\ \E restarts \in BOOLEAN :
           restartReq' = (restartReq \/ restarts)
    /\ run' = locals.calib.run
    /\ everCalibrated' = TRUE
    /\ pending' = locals.calib.run.threshold
    /\ pc' = [pc EXCEPT !.calib = "select"]
    /\ locals' = [locals EXCEPT !.calib = NoArg]
    /\ UNCHANGED <<mu, signal, now, ticks, events, load, users, running,
                   procStart, cpuSamples, userSamples, due, cfgFile, cfg,
                   calibSet, state, stateFile, dec, lastCall, arg, res>>

NextRace ==
    \/ TickReloads
    \/ TickChecksLearning
    \/ TickEvaluates
    \/ CheckBegins
    \/ RunSetsInitialDone
    \/ RunSetsLastCalibTime
    \/ RunSetsCurrentThreshold
    \/ RunSetsIdleBaseline
    \/ RunSaves
    \/ BannerReads
    \/ BannerTruncates
    \/ BannerWrites
    \/ RestartServiceRuns

SpecRace == InitRace /\ [][NextRace]_vars

\* the step is an evaluation of an auto-mode tick
AutoTickEvaluates ==
    pc.main = "CurrentThreshold" /\ pc'.main = "select" /\ cfg.AutoMode /\ calibSet

\* C37 (as claimed): whatever the order of the statements of the two
\* tasks, the threshold an auto-mode tick evaluates with is at least
\* MinThreshold, the least value a calibration produces, and such a tick
\* never finds InitialDone true beside a CurrentThreshold of 0.
C37_TickUsesACalibratedThreshold ==
    [][AutoTickEvaluates
         => /\ dec'.threshold >= MinThreshold
            /\ ~(state.InitialDone /\ state.CurrentThreshold = 0)]_vars

\* ------------------------------------------------------------------------
\* The threshold of an evaluation, on a machine under steady load
\* ------------------------------------------------------------------------

\* the least usage of a machine that counts as under high load here
HighLoad == 95

\* the steady usages of the machine: idle, or one of three high levels
BusyLoads == {2, HighLoad, 98, 100}

\* config.ini with one-minute windows and each form of cpu_threshold
ThresholdFiles ==
    {ConfigFile(IntKey(1), IntKey(1), k) : k \in ThresholdKeys}

\* the service has run for an hour on a machine whose CPU usage stayed at
\* one level; the evaluation tick and the calibration check of the hour's
\* end are waiting
InitBusy ==
    /\ now = calibrationCheckInterval /\ ticks = 0 /\ events = 0
    /\ users = 0
    /\ \E file \in ThresholdFiles, sfile \in LifeStateFiles :
           LET p == StartProcess(file, sfile, 0, SaveOk)
           IN  /\ cfgFile = p.cfgFile /\ cfg = p.cfg /\ calibSet = p.calibSet
               /\ state = p.state /\ stateFile = p.stateFile
               /\ running = p.ok
    /\ procStart = 0
    /\ \E l \in BusyLoads :
           /\ load = l
           /\ cpuSamples = CpuTakeSamples(<<>>, calibrationCheckInterval,
                                          [i \in 1..minCalibSamples |-> l])
    /\ userSamples = UserTakeSample(<<>>, calibrationCheckInterval, 0)
    /\ due = [cpu |-> FALSE, user |-> FALSE, eval |-> TRUE, calib |-> calibSet]
    /\ restartReq = FALSE
    /\ signal = "none"
    /\ dec = NoDecision
    /\ run = NoRun
    /\ lastCall = [NoCalls EXCEPT !.cpu = calibrationCheckInterval,
                                  !.cpuOk = calibrationCheckInterval,
                                  !.user = calibrationCheckInterval,
                                  !.userOk = calibrationCheckInterval]
    /\ everCalibrated = FALSE
    /\ pending = NoPending
    /\ arg = NoArg
    /\ res = NoArg
    /\ BetweenHandlers

NextBusy ==
    \/ DecisionTick
    \/ CalibrationTick

SpecBusy == InitBusy /\ [][NextBusy]_vars

\* every sample of the CPU buffer is at a high load
AllSamplesHigh ==
    /\ cpuSamples # <<>>
    /\ \A i \in 1..Len(cpuSamples) : cpuSamples[i].usage >= HighLoad

\* C38 (as claimed): the threshold of every evaluation is within 0..100,
\* in manual mode and after a calibration, and an auto-mode evaluation on a
\* machine whose samples are all at a high load does not find the CPU below
\* the threshold.
C38_ThresholdIsAPercentage ==
    (dec.kind = "eval")
        => /\ dec.threshold \in 0..100
           /\ (dec.auto /\ AllSamplesHigh) => ~dec.cpuBelow

\* ------------------------------------------------------------------------
\* The time between two calibration runs (SpecInterval)
\* ------------------------------------------------------------------------

\* the state an earlier process left that started learning 23 hours ago
LearningSinceYesterday ==
    [ZeroState EXCEPT !.StartTime = 0 - 23 * Hour]

\* the state an earlier process left after a calibration 167 hours ago, one
\* hour short of the seven days of the built-in recalibration interval
CalibratedLastWeek ==
    [PriorCalibration EXCEPT !.LastCalibTime = 0 - 167 * Hour,
                             !.StartTime = 0 - 200 * Hour]

\* a process started in auto mode at time 0 with the built-in
\* CalibrationConfig (arg); res holds the times of the calibration runs that
\* succeeded since
InitInterval ==
    /\ now = 0 /\ ticks = 0 /\ events = 0
    /\ load = 2 /\ users = 0
    /\ \E st \in {LearningSinceYesterday, CalibratedLastWeek} :
           LET p == StartProcess(AutoFile, saveState(NoStateFile, st, SaveOk),
                                 0, SaveOk)
           IN  /\ cfgFile = p.cfgFile /\ cfg = p.cfg /\ calibSet = p.calibSet
               /\ state = p.state /\ stateFile = p.stateFile
    /\ arg = [op |-> "calibCfg",
              calibCfg |-> LoadDefaults(
                  [DefaultsFile(NoKey, NoKey, NoKey) EXCEPT !.exists = FALSE]).calibCfg]
    /\ running = TRUE
    /\ procStart = 0
    /\ cpuSamples = <<>>
    /\ userSamples = <<>>
    /\ due = StartDue
    /\ restartReq = FALSE
    /\ signal = "none"
    /\ dec = NoDecision
    /\ run = NoRun
    /\ lastCall = NoCalls
    /\ everCalibrated = FALSE
    /\ pending = NoPending
    /\ res = [op |-> "succeeded", runs |-> <<>>]
    /\ BetweenHandlers

\* One tick of runCalibrationLoop with the timing of the CalibrationConfig.
\* The save of a run may fail; after a successful run restartService asks
\* systemd for a restart, which may fail.
IntervalCheck ==
    LET c == arg.calibCfg
        initial == /\ ~state.InitialDone
                   /\ Since(state.StartTime, now) >= InitialLookbackOf(c)
        weekly == /\ state.InitialDone
                  /\ Since(state.LastCalibTime, now) >= RecalibrationIntervalOf(c)
        lookback == IF initial THEN InitialLookbackOf(c)
                    ELSE RecalibrationLookbackOf(c)
    IN  /\ running /\ calibSet /\ due.calib
        /\ due' = [due EXCEPT !.calib = FALSE]
        /\ IF initial \/ weekly
           THEN \E written \in SaveOutcomes, restarts \in BOOLEAN :
                \E r \in {Run(state, stateFile, GetSamples(cpuSamples), lookback,
                              now, written)} :
                    /\ (written # SaveOk \/ restarts) => r.err = ""
                    /\ events + Cost(written # SaveOk) <= MaxEvents
                    /\ events' = events + Cost(written # SaveOk)
                    /\ state' = r.state
                    /\ stateFile' = r.file
                    /\ cfgFile' = IF r.err = ""
                                  THEN writeBannerToConfig(cfgFile, "calibrated")
                                  ELSE cfgFile
                    /\ run' = [kind |-> IF initial THEN "initial" ELSE "weekly",
                               at |-> now, err |-> r.err, threshold |-> r.threshold]
                    /\ restartReq' = (restartReq \/ restarts)
                    /\ everCalibrated' = (everCalibrated \/ r.err = "")
                    /\ pending' = IF r.err = "" THEN r.threshold ELSE pending
                    /\ res' = IF r.err = ""
                              THEN [res EXCEPT !.runs = Append(@, now)] ELSE res
           ELSE /\ events' = events
                /\ state' = state
                /\ stateFile' = stateFile
                /\ cfgFile' = IF IsInLearningPhase(state)
                              THEN writeBannerToConfig(cfgFile, "learning")
                              ELSE cfgFile
                /\ run' = [kind |-> IF IsInLearningPhase(state) THEN "banner"
                                    ELSE "idle",
                           at |-> now, err |-> "", threshold |-> 0]
                /\ restartReq' = restartReq
                /\ everCalibrated' = everCalibrated
                /\ pending' = pending
                /\ res' = res
        /\ UNCHANGED <<mu, pc, locals,
                       signal, now, ticks, load, users, running,
                       procStart, cpuSamples, userSamples, cfg, calibSet,
                       dec, lastCall, arg>>

NextInterval ==
    \/ HourPasses
    \/ CpuSample
    \/ UserSample
    \/ IntervalCheck
    \/ Restart

SpecInterval == InitInterval /\ [][NextInterval]_vars

\* C39 (as claimed): a calibration run that succeeds, in this process or in
\* the one started after a restart, comes no sooner than the recalibration
\* interval after the successful run before it, whether or not the save of
\* that run succeeded.
C39_RunsAreAnIntervalApart ==
    \A i \in 1..Len(res.runs) :
        i > 1 => res.runs[i] - res.runs[i - 1]
                     >= RecalibrationIntervalOf(arg.calibCfg)

\* ------------------------------------------------------------------------
\* The tick's reload beside a banner rewrite (SpecRace)
\* ------------------------------------------------------------------------

\* config.ini as a whole: the content writeBannerToConfig is about to write
\* while it has the file truncated, the file itself otherwise
CompleteFile ==
    IF pc.calib = "Write" THEN locals.calib.output ELSE cfgFile

\* the step is the reload of a tick
TickReloaded == pc.main = "select" /\ pc'.main = "IsInLearningPhase"

\* C40 (as claimed): the configuration a tick loads is the one of a
\* complete config.ini, also while the calibration task is rewriting the
\* file with a banner: its window lengths and its mode are never those of a
\* truncated file.
C40_ReloadSeesACompleteFile ==
    [][TickReloaded
         => /\ cfg' = ReloadConfig(cfg, CompleteFile)
            /\ cfg'.CPUCheckMinutes = Load(CompleteFile).cfg.CPUCheckMinutes
            /\ cfg'.UserCheckMinutes = Load(CompleteFile).cfg.UserCheckMinutes
            /\ cfg'.AutoMode = Load(CompleteFile).cfg.AutoMode]_vars

====
